---- MODULE Spec2Model ----
(***************************************************************************)
(* A model of the HitBTC exchange adapter (js/hitbtc.js).                  *)
(*                                                                         *)
(* The adapter translates REST responses of the exchange into unified      *)
(* records.  Its only mutable state is the order cache this.orders, keyed  *)
(* by client-order-id.  Every operation is modelled as one action that     *)
(* records the operation's name, its inputs and its outcome (a returned    *)
(* value or a thrown exception).                                           *)
(*                                                                         *)
(* JavaScript values are encoded as records tagged with their type:        *)
(*   undefined, NaN, strings Str(s), numbers Num(n, d) (the rational n/d   *)
(*   in lowest terms; IEEE-754 rounding is not modelled), arrays Arr(s).   *)
(***************************************************************************)
EXTENDS Integers, Sequences, FiniteSets, TLC

VARIABLES
    orders,   \* this.orders: the order cache, a function from ids to unified orders
    op,       \* the operation that ran last
    args,     \* its inputs (arguments and the exchange's response)
    ret       \* its outcome: Return(value) or Throw(kind, message)

vars == <<orders, op, args, ret>>

----------------------------------------------------------------------------
(* JavaScript values *)

undefined == [t |-> "undefined"]

NaN == [t |-> "NaN"]

Str(s) == [t |-> "string", v |-> s]

Arr(s) == [t |-> "array", v |-> s]

\* value bound once to a name: const v = value; Body (v)
Bind(value, Body(_)) == CHOOSE r \in {Body(v) : v \in {value}} : TRUE

Gcd[a \in Nat, b \in Nat] == IF b = 0 THEN a ELSE Gcd[b, a % b]

Abs(a) == IF a < 0 THEN -a ELSE a

\* the number n/d, in lowest terms with a positive denominator
Num(n, d) ==
    Bind(<<n, d, Gcd[Abs(n), Abs(d)]>>,
         LAMBDA p : [t |-> "number",
                     n |-> (IF p[2] < 0 THEN -p[1] ELSE p[1]) \div p[3],
                     d |-> Abs(p[2]) \div p[3]])

IsNumber(x) == x.t = "number"

\* a + b, a - b, a * b and a / b of JavaScript on numbers, NaN and undefined:
\* an operand that is no number makes the result NaN
Plus(a, b) ==
    IF IsNumber(a) /\ IsNumber(b) THEN Num(a.n * b.d + b.n * a.d, a.d * b.d) ELSE NaN

Minus(a, b) ==
    IF IsNumber(a) /\ IsNumber(b) THEN Num(a.n * b.d - b.n * a.d, a.d * b.d) ELSE NaN

Times(a, b) ==
    IF IsNumber(a) /\ IsNumber(b) THEN Num(a.n * b.n, a.d * b.d) ELSE NaN

Divide(a, b) ==
    IF IsNumber(a) /\ IsNumber(b) /\ b.n # 0 THEN Num(a.n * b.d, a.d * b.n) ELSE NaN

\* a > 0 of JavaScript: false for NaN and undefined
Positive(a) == IsNumber(a) /\ a.n > 0

\* the outcome of an operation
Return(v) == [threw |-> FALSE, value |-> v]

Throw(kind, message) == [threw |-> TRUE, kind |-> kind, message |-> message]

----------------------------------------------------------------------------
(* Helpers of the base client (js/base/Exchange.js, js/base/functions) *)

\* String (x) of a number: decimal digits of an integer
NumberToString(x) == ToString(x.n)

\* safeString (object, key, default) applied to the value object[key]
safeString(x, default) ==
    IF x.t = "string" THEN x
    ELSE IF x.t = "number" THEN Str(NumberToString(x))
    ELSE default

\* throwExactlyMatchedException (exact, string, message): the kind thrown,
\* or "none" when the string is no key of the table
throwExactlyMatchedException(exact, string, message) ==
    IF string.t = "string" /\ string.v \in DOMAIN exact
    THEN Throw(exact[string.v], message)
    ELSE Return(undefined)

----------------------------------------------------------------------------
(* describe (): the exception table *)

\* faulty variant: the entries of 2001 and 2010 exchanged
exceptions_swapped ==
    [c \in {"504", "1002", "1003", "2010", "2001", "2011", "2020", "20002", "20001"} |->
        CASE c = "504" -> "RequestTimeout"
          [] c = "1002" -> "AuthenticationError"
          [] c = "1003" -> "PermissionDenied"
          [] c = "2010" -> "BadSymbol"
          [] c = "2001" -> "InvalidOrder"
          [] c = "2011" -> "InvalidOrder"
          [] c = "2020" -> "InvalidOrder"
          [] c = "20002" -> "OrderNotFound"
          [] c = "20001" -> "InsufficientFunds"]

exceptions ==
    [c \in {"504", "1002", "1003", "2010", "2001", "2011", "2020", "20002", "20001"} |->
        CASE c = "504" -> "RequestTimeout"
          [] c = "1002" -> "AuthenticationError"
          [] c = "1003" -> "PermissionDenied"
          [] c = "2010" -> "InvalidOrder"
          [] c = "2001" -> "BadSymbol"
          [] c = "2011" -> "InvalidOrder"
          [] c = "2020" -> "InvalidOrder"
          [] c = "20002" -> "OrderNotFound"
          [] c = "20001" -> "InsufficientFunds"]

id == "hitbtc"

----------------------------------------------------------------------------
(* handleErrors *)

\* body[0]: the first character of the response text, undefined when empty
FirstChar(body) == IF Len(body) > 0 THEN Str(body[1]) ELSE undefined

\* this.id + ' ' + body
Feedback(body) == <<id, " ">> \o body

\* 'error' in response
HasError(response) == response.t = "object" /\ response.has_error

\* faulty variant: the message is tested before the code table
classifyBody_messageFirst(body, response, feedback) ==
    IF FirstChar(body) = Str("{") /\ HasError(response)
    THEN LET errorCode == safeString(response.error.code, undefined)
             matched == throwExactlyMatchedException(exceptions, errorCode, feedback)
             message == safeString(response.error.message, undefined)
         IN  IF message = Str("Duplicate clientOrderId")
             THEN Throw("InvalidOrder", feedback)
             ELSE matched
    ELSE Return(undefined)

\* lines 1155-1164: the classification by the body's nested error
classifyBody(body, response, feedback) ==
    IF FirstChar(body) = Str("{") /\ HasError(response)
    THEN LET errorCode == safeString(response.error.code, undefined)
             matched == throwExactlyMatchedException(exceptions, errorCode, feedback)
             message == safeString(response.error.message, undefined)
         IN  IF matched.threw THEN matched
             ELSE IF message = Str("Duplicate clientOrderId")
                  THEN Throw("InvalidOrder", feedback)
                  ELSE Return(undefined)
    ELSE Return(undefined)

\* faulty variant: the body is classified before the status 503/504 is tested
handleErrors_bodyFirst(code, body, response) ==
    IF response = undefined THEN Return(undefined)
    ELSE IF code >= 400
    THEN LET feedback == Feedback(body)
             classified == classifyBody(body, response, feedback)
         IN  IF code = 429 THEN Return(undefined)
             ELSE IF classified.threw THEN classified
             ELSE IF code = 503 \/ code = 504 THEN Throw("ExchangeNotAvailable", feedback)
             ELSE Throw("ExchangeError", feedback)
    ELSE Return(undefined)

\* faulty variant: the rate-limit status 429 is not set apart
handleErrors_no429(code, body, response) ==
    IF response = undefined THEN Return(undefined)
    ELSE IF code >= 400
    THEN LET feedback == Feedback(body)
         IN  IF code = 503 \/ code = 504 THEN Throw("ExchangeNotAvailable", feedback)
             ELSE LET classified == classifyBody(body, response, feedback)
                  IN  IF classified.threw THEN classified
                      ELSE Throw("ExchangeError", feedback)
    ELSE Return(undefined)

\* faulty variant: the status 503/504 is tested before the decoded response
handleErrors_statusFirst(code, body, response) ==
    IF code >= 400
    THEN LET feedback == Feedback(body)
         IN  IF code = 503 \/ code = 504 THEN Throw("ExchangeNotAvailable", feedback)
             ELSE IF code = 429 \/ response = undefined THEN Return(undefined)
             ELSE LET classified == classifyBody(body, response, feedback)
                  IN  IF classified.threw THEN classified
                      ELSE Throw("ExchangeError", feedback)
    ELSE Return(undefined)

handleErrors(code, body, response) ==
    IF response = undefined THEN Return(undefined)
    ELSE IF code >= 400
    THEN LET feedback == Feedback(body)
         IN  IF code = 503 \/ code = 504 THEN Throw("ExchangeNotAvailable", feedback)
             ELSE IF code = 429 THEN Return(undefined)
             ELSE LET classified == classifyBody(body, response, feedback)
                  IN  IF classified.threw THEN classified
                      ELSE Throw("ExchangeError", feedback)
    ELSE Return(undefined)

----------------------------------------------------------------------------
(* Inputs of handleErrors *)

HttpCodes == {200, 400, 404, 429, 500, 503, 504}

Bodies == { <<>>, <<"{", "}">>, <<"[", "]">>, <<"<", ">">> }

ErrorCodes == {undefined, Str("1002")}
    \cup {Num(c, 1) : c \in {504, 1002, 1003, 2001, 2010, 2011, 2020, 20001, 20002, 500, 10001}}

ErrorMessages == {undefined, Str("Duplicate clientOrderId"), Str("Gateway Timeout")}

ErrorObjects == [code : ErrorCodes, message : ErrorMessages]

Responses ==
    {undefined, Arr(<<>>), [t |-> "object", has_error |-> FALSE, error |-> undefined]}
    \cup {[t |-> "object", has_error |-> TRUE, error |-> e] : e \in ErrorObjects}

----------------------------------------------------------------------------
(* The error classifier as a state machine: the base client calls          *)
(* handleErrors after each HTTP response.                                  *)

InitErrors ==
    /\ orders = << >>
    /\ op = "init"
    /\ args = << >>
    /\ ret = Return(undefined)

HandleErrors ==
    \E code \in HttpCodes, body \in Bodies, response \in Responses :
        /\ op' = "handleErrors"
        /\ args' = [code |-> code, body |-> body, response |-> response]
        /\ ret' = handleErrors(code, body, response)
        /\ UNCHANGED orders

NextErrors == HandleErrors

SpecErrors == InitErrors /\ [][NextErrors]_vars

----------------------------------------------------------------------------
(* Claims about the error classifier, checked under SpecErrors *)

Handled == op = "handleErrors"

Raised(kind) == ret.threw /\ ret.kind = kind

\* the decoded body {"error":{"code":504,"message":"Gateway Timeout"}}
GatewayTimeoutResponse ==
    [t |-> "object", has_error |-> TRUE,
     error |-> [code |-> Num(504, 1), message |-> Str("Gateway Timeout")]]

\* the call reached the classification by the body: a decoded response, a
\* status >= 400 other than 429, 503 and 504
BodyClassified ==
    /\ Handled
    /\ args.response # undefined
    /\ args.code >= 400
    /\ args.code \notin {429, 503, 504}

\* the body is the text of a JSON object that holds a nested error
JsonErrorBody == FirstChar(args.body) = Str("{") /\ HasError(args.response)

\* the nested error code as the key looked up in the table
NestedCode == safeString(args.response.error.code, undefined)

NestedMessage == safeString(args.response.error.message, undefined)

\* the kinds the specification lists for the codes of the table
ListedKind(c) ==
    CASE c = "1002" -> "AuthenticationError"
      [] c = "1003" -> "PermissionDenied"
      [] c = "2001" -> "BadSymbol"
      [] c \in {"2010", "2011", "2020"} -> "InvalidOrder"
      [] c = "20001" -> "InsufficientFunds"
      [] c = "20002" -> "OrderNotFound"
      [] c = "504" -> "RequestTimeout"
      [] OTHER -> "unlisted"

\* C1: a failed call with HTTP status 504 and the decoded body
\* {"error":{"code":504,"message":"Gateway Timeout"}} raises RequestTimeout.
\* The code raises ExchangeNotAvailable there: the status is tested first.
C1_GatewayTimeoutIsRequestTimeout ==
    (Handled /\ args.code = 504 /\ args.body = <<"{", "}">>
        /\ args.response = GatewayTimeoutResponse)
    => Raised("RequestTimeout")

\* C2: for every decoded response with HTTP status 503 or 504, whatever the
\* body's error code or message, ExchangeNotAvailable is raised.
C2_ServiceUnavailable ==
    (Handled /\ args.response # undefined /\ args.code \in {503, 504})
    => Raised("ExchangeNotAvailable")

C2_Witness ==
    /\ Handled
    /\ args.code = 503
    /\ JsonErrorBody
    /\ NestedCode = Str("1002")
    /\ NestedMessage = Str("Duplicate clientOrderId")
    /\ Raised("ExchangeNotAvailable")

\* C3: for HTTP status 429 nothing is raised, for every body, including
\* bodies whose nested code is in the table or whose message is
\* "Duplicate clientOrderId".
C3_RateLimitDefers ==
    (Handled /\ args.code = 429) => ~ret.threw

C3_Witness ==
    /\ Handled
    /\ args.code = 429
    /\ JsonErrorBody
    /\ NestedCode = Str("20001")
    /\ NestedMessage = Str("Duplicate clientOrderId")
    /\ ~ret.threw

\* C4: for a status >= 400 other than 429, 503 and 504 and a JSON object body
\* with a nested error code, the raised kind is the listed kind of that code;
\* a code that is not listed, with a message other than
\* "Duplicate clientOrderId", raises the generic ExchangeError.
C4_CodeTable ==
    (BodyClassified /\ JsonErrorBody /\ NestedCode # undefined)
    => /\ ListedKind(NestedCode.v) # "unlisted" => Raised(ListedKind(NestedCode.v))
       /\ (ListedKind(NestedCode.v) = "unlisted"
            /\ NestedMessage # Str("Duplicate clientOrderId"))
          => Raised("ExchangeError")

C4_Witness ==
    /\ BodyClassified
    /\ JsonErrorBody
    /\ args.code = 400
    /\ NestedCode = Str("2001")
    /\ Raised("BadSymbol")

\* C5: in the classification by the body, the message "Duplicate
\* clientOrderId" with a nested code that matches no table entry (or with no
\* code) raises InvalidOrder, not ExchangeError; with a code that matches,
\* the table's kind wins over the message.
C5_DuplicateClientOrderId ==
    (BodyClassified /\ JsonErrorBody /\ NestedMessage = Str("Duplicate clientOrderId"))
    => IF NestedCode # undefined /\ NestedCode.v \in DOMAIN exceptions
       THEN Raised(exceptions[NestedCode.v])
       ELSE Raised("InvalidOrder")

C5_Witness ==
    /\ BodyClassified
    /\ JsonErrorBody
    /\ NestedMessage = Str("Duplicate clientOrderId")
    /\ \/ NestedCode = undefined /\ Raised("InvalidOrder")
       \/ NestedCode = Str("20001") /\ Raised("InsufficientFunds")

\* C23: handleErrors raises nothing when the HTTP status is below 400 or the
\* decoded response is undefined, whatever the status and the body (status
\* 503 and 504 with an undecodable body included); it raises only for a status
\* >= 400 other than 429 together with a decoded response.
C23_RaisesOnlyOnDecodedError ==
    Handled =>
        /\ (args.code < 400 \/ args.response = undefined) => ~ret.threw
        /\ ret.threw => (args.code >= 400 /\ args.code # 429 /\ args.response # undefined)

C23_Witness ==
    /\ Handled
    /\ args.code \in {503, 504}
    /\ args.body = <<"<", ">">>
    /\ args.response = undefined
    /\ ~ret.threw

----------------------------------------------------------------------------
(* Numbers on the wire: decimal strings *)

\* parseFloat on the decimal strings the model uses; any other string is
\* not a number
parseFloat(x) ==
    IF x.t = "number" THEN x
    ELSE IF x.t # "string" THEN NaN
    ELSE CASE x.v = "0" -> Num(0, 1)
           [] x.v = "1" -> Num(1, 1)
           [] x.v = "2" -> Num(2, 1)
           [] x.v = "3" -> Num(3, 1)
           [] x.v = "50" -> Num(50, 1)
           [] x.v = "100" -> Num(100, 1)
           [] x.v = "101" -> Num(101, 1)
           [] x.v = "102" -> Num(102, 1)
           [] x.v = "110" -> Num(110, 1)
           [] x.v = "-100" -> Num(-100, 1)
           [] x.v = "0.1" -> Num(1, 10)
           [] x.v = "0.2" -> Num(2, 10)
           [] OTHER -> NaN

\* safeFloat (object, key, default) applied to the value object[key]
safeFloat(x, default) ==
    Bind(parseFloat(x), LAMBDA n : IF IsNumber(n) THEN n ELSE default)

\* sum (a, b) of the base client: the operands that are no finite numbers
\* are left out; undefined when none is left
sum(a, b) ==
    IF IsNumber(a) /\ IsNumber(b) THEN Plus(a, b)
    ELSE IF IsNumber(a) THEN a
    ELSE IF IsNumber(b) THEN b
    ELSE undefined

\* the property name a value is coerced to when it indexes an object
ToKey(x) == IF x.t = "string" THEN x.v ELSE x.t

\* this.parse8601 (timestamp): the milliseconds of an ISO 8601 time
parse8601(x) ==
    IF x = Str("1970-01-01T00:00:01.000Z") THEN Num(1000, 1)
    ELSE IF x = Str("1970-01-01T00:00:02.000Z") THEN Num(2000, 1)
    ELSE undefined

\* this.iso8601 (timestamp)
iso8601(x) ==
    IF x = Num(1000, 1) THEN Str("1970-01-01T00:00:01.000Z")
    ELSE IF x = Num(2000, 1) THEN Str("1970-01-01T00:00:02.000Z")
    ELSE undefined

----------------------------------------------------------------------------
(* The markets loaded by loadMarkets, by exchange id (this.markets_by_id) *)

markets_by_id ==
    [m \in {"ETHBTC"} |->
        [id |-> Str("ETHBTC"), symbol |-> Str("ETH/BTC"), base |-> Str("ETH"),
         quote |-> Str("BTC"), feeCurrency |-> Str("BTC")]]

InMarketsById(marketId) == marketId.t = "string" /\ marketId.v \in DOMAIN markets_by_id

----------------------------------------------------------------------------
(* parseOrderStatus *)

\* faulty variant: partiallyFilled counted as closed, expired as canceled
parseOrderStatus_closedEarly(status) ==
    LET statuses == [s \in {"new", "suspended", "partiallyFilled", "filled",
                            "canceled", "expired"} |->
                        CASE s = "new" -> "open"
                          [] s = "suspended" -> "open"
                          [] s = "partiallyFilled" -> "closed"
                          [] s = "filled" -> "closed"
                          [] s = "canceled" -> "canceled"
                          [] s = "expired" -> "canceled"]
    IN  IF status.t = "string" /\ status.v \in DOMAIN statuses
        THEN Str(statuses[status.v])
        ELSE status

parseOrderStatus(status) ==
    LET statuses == [s \in {"new", "suspended", "partiallyFilled", "filled",
                            "canceled", "expired"} |->
                        CASE s = "new" -> "open"
                          [] s = "suspended" -> "open"
                          [] s = "partiallyFilled" -> "open"
                          [] s = "filled" -> "closed"
                          [] s = "canceled" -> "canceled"
                          [] s = "expired" -> "failed"]
    IN  IF status.t = "string" /\ status.v \in DOMAIN statuses
        THEN Str(statuses[status.v])
        ELSE status

----------------------------------------------------------------------------
(* parseTrade, parseTrades *)

\* faulty variant: a market passed by the caller is kept
tradeSymbol_callerFirst(marketId, market) ==
    IF market # undefined THEN [market |-> market, symbol |-> market.symbol]
    ELSE IF marketId # undefined /\ InMarketsById(marketId)
    THEN [market |-> markets_by_id[marketId.v], symbol |-> markets_by_id[marketId.v].symbol]
    ELSE [market |-> market, symbol |-> marketId]

\* lines 517-528: the market and the unified symbol of a trade
tradeSymbol(marketId, market) ==
    IF marketId # undefined /\ InMarketsById(marketId)
    THEN [market |-> markets_by_id[marketId.v], symbol |-> markets_by_id[marketId.v].symbol]
    ELSE IF marketId # undefined
    THEN [market |-> market, symbol |-> marketId]
    ELSE [market |-> market,
          symbol |-> IF market # undefined THEN market.symbol ELSE undefined]

\* lines 529-537: the fee of a trade
tradeFee(feeCost, market) ==
    IF feeCost # undefined
    THEN [cost |-> feeCost,
          currency |-> IF market # undefined THEN market.feeCurrency ELSE undefined]
    ELSE undefined

parseTrade(trade, market) ==
    Bind([resolved |-> tradeSymbol(safeString(trade.symbol, undefined), market),
          feeCost |-> safeFloat(trade.fee, undefined),
          price |-> safeFloat(trade.price, undefined),
          amount |-> safeFloat(trade.quantity, undefined)],
         LAMBDA l :
            [id |-> safeString(trade.id, undefined),
             order |-> safeString(trade.clientOrderId, undefined),
             symbol |-> l.resolved.symbol,
             side |-> safeString(trade.side, undefined),
             price |-> l.price,
             amount |-> l.amount,
             cost |-> Times(l.price, l.amount),
             fee |-> tradeFee(l.feeCost, l.resolved.market)])

\* parseTrades (trades, market) of the base client: each trade parsed, then
\* the trades of the market's symbol kept when a market is given (the sort
\* by timestamp is left out: timestamps are not modelled)
parseTrades(trades, market) ==
    Bind([i \in 1..Len(trades) |-> parseTrade(trades[i], market)],
         LAMBDA parsed :
            IF market = undefined THEN parsed
            ELSE SelectSeq(parsed, LAMBDA tr : tr.symbol = market.symbol))

----------------------------------------------------------------------------
(* parseOrder *)

\* lines 814-828: the market and the unified symbol of an order
orderSymbol(marketId, market) ==
    IF marketId # undefined /\ InMarketsById(marketId)
    THEN [market |-> markets_by_id[marketId.v], symbol |-> markets_by_id[marketId.v].symbol]
    ELSE IF marketId # undefined
    THEN [market |-> market, symbol |-> marketId]
    ELSE [market |-> market,
          symbol |-> IF market # undefined THEN market.id ELSE undefined]

\* faulty variant: the cached price is taken whenever the id is cached
backfillPrice_cacheFirst(cache, orderId, price) ==
    IF ToKey(orderId) \in DOMAIN cache
    THEN cache[ToKey(orderId)].price
    ELSE price

\* lines 837-842: a price the response lacks is taken from the cached order
backfillPrice(cache, orderId, price) ==
    IF price = undefined /\ ToKey(orderId) \in DOMAIN cache
    THEN cache[ToKey(orderId)].price
    ELSE price

\* lines 843-852: remaining and cost from the order's own quantities
orderRemaining(amount, filled) ==
    IF amount # undefined /\ filled # undefined THEN Minus(amount, filled) ELSE undefined

orderCost(amount, filled, price) ==
    IF amount # undefined /\ filled # undefined /\ price # undefined
    THEN Times(filled, price) ELSE undefined

\* lines 862-867: tradesCost after the first n fills
RECURSIVE sumTradesCost(_, _)
sumTradesCost(trades, n) ==
    IF n = 0 THEN Num(0, 1)
    ELSE Bind(sumTradesCost(trades, n - 1),
              LAMBDA tradesCost : sum(tradesCost, trades[n].cost))

\* faulty variant: the fee of the fill replaces the fees summed so far
addTradeFee_last(feeCost, trade) ==
    Bind(IF trade.fee = undefined THEN undefined ELSE safeFloat(trade.fee.cost, undefined),
         LAMBDA tradeFeeCost :
            IF tradeFeeCost # undefined THEN tradeFeeCost ELSE feeCost)

\* lines 868-872: feeCost with the fee of one more fill
addTradeFee(feeCost, trade) ==
    Bind(IF trade.fee = undefined THEN undefined ELSE safeFloat(trade.fee.cost, undefined),
         LAMBDA tradeFeeCost :
            IF tradeFeeCost # undefined THEN sum(feeCost, tradeFeeCost) ELSE feeCost)

\* lines 860-873: feeCost after the first n fills
RECURSIVE sumFeeCost(_, _)
sumFeeCost(trades, n) ==
    IF n = 0 THEN undefined
    ELSE Bind(sumFeeCost(trades, n - 1),
              LAMBDA before :
                 addTradeFee(IF before = undefined THEN Num(0, 1) ELSE before, trades[n]))

\* lines 875-876: the average price of the fills
averagePrice(cost, filled) ==
    IF filled # undefined /\ Positive(filled) THEN Divide(cost, filled) ELSE undefined

\* faulty variant: the order type is not looked at
marketPrice_anyType(type, price, filled, average) ==
    IF filled # undefined /\ Positive(filled) /\ price = undefined
    THEN average
    ELSE price

\* lines 875-882: the price of a market order that has none is the average
marketPrice(type, price, filled, average) ==
    IF filled # undefined /\ Positive(filled) /\ type = Str("market") /\ price = undefined
    THEN average
    ELSE price

\* lines 812-855: the fields read from the order, the price backfilled
orderFields(cache, order, market) ==
    Bind(orderSymbol(safeString(order.symbol, undefined), market),
         LAMBDA resolved :
            [timestamp |-> parse8601(safeString(order.createdAt, undefined)),
             market |-> resolved.market,
             symbol |-> resolved.symbol,
             amount |-> safeFloat(order.quantity, undefined),
             filled |-> safeFloat(order.cumQuantity, undefined),
             status |-> parseOrderStatus(safeString(order.status, undefined)),
             id |-> safeString(order.clientOrderId, undefined),
             price |-> backfillPrice(cache, safeString(order.clientOrderId, undefined),
                                     safeFloat(order.price, undefined)),
             type |-> safeString(order.type, undefined),
             side |-> safeString(order.side, undefined),
             trades |-> IF order.tradesReport # undefined
                        THEN Arr(parseTrades(order.tradesReport.v, resolved.market))
                        ELSE undefined])

\* lines 843-882: cost, fee cost, average and price of the order
orderTotals(f) ==
    IF f.trades = undefined
    THEN [cost |-> orderCost(f.amount, f.filled, f.price), feeCost |-> undefined,
          average |-> undefined, price |-> f.price]
    ELSE Bind(sumTradesCost(f.trades.v, Len(f.trades.v)),
              LAMBDA cost :
                 Bind(averagePrice(cost, f.filled),
                      LAMBDA average :
                         [cost |-> cost,
                          feeCost |-> sumFeeCost(f.trades.v, Len(f.trades.v)),
                          average |-> average,
                          price |-> marketPrice(f.type, f.price, f.filled, average)]))

\* lines 883-909: the fee record and the unified order; market['quote'] of
\* an undefined market is a TypeError
orderResult(f, totals) ==
    IF totals.feeCost # undefined /\ f.market = undefined
    THEN Throw("TypeError", <<"market", "quote">>)
    ELSE Return([id |-> f.id,
                 clientOrderId |-> f.id,
                 timestamp |-> f.timestamp,
                 status |-> f.status,
                 symbol |-> f.symbol,
                 type |-> f.type,
                 side |-> f.side,
                 price |-> totals.price,
                 average |-> totals.average,
                 amount |-> f.amount,
                 cost |-> totals.cost,
                 filled |-> f.filled,
                 remaining |-> orderRemaining(f.amount, f.filled),
                 fee |-> IF totals.feeCost # undefined
                         THEN [cost |-> totals.feeCost, currency |-> f.market.quote]
                         ELSE undefined,
                 trades |-> f.trades])

parseOrder(cache, order, market) ==
    Bind(orderFields(cache, order, market),
         LAMBDA f : Bind(orderTotals(f), LAMBDA totals : orderResult(f, totals)))

----------------------------------------------------------------------------
(* createOrder, editOrder, cancelOrder *)

\* the outcome of an endpoint call: the decoded response, or the exception
\* the request raised (a network error, or one raised by handleErrors)
Failure(kind) == [failure |-> kind]

IsFailure(reply) == "failure" \in DOMAIN reply

\* an operation's outcome together with the cache it leaves
Outcome(r, cache) == [ret |-> r, orders |-> cache]

\* this.orders[id] = order
cacheStore(cache, orderId, order) ==
    [k \in DOMAIN cache \cup {ToKey(orderId)} |->
        IF k = ToKey(orderId) THEN order ELSE cache[k]]

\* lines 731-738
createOrder(cache, reply) ==
    IF IsFailure(reply) THEN Outcome(Throw(reply.failure, <<id>>), cache)
    ELSE Bind(parseOrder(cache, reply, undefined),
              LAMBDA parsed :
                 IF parsed.threw THEN Outcome(parsed, cache)
                 ELSE IF parsed.value.status = Str("rejected")
                 THEN Outcome(Throw("InvalidOrder", <<id, "rejected">>), cache)
                 ELSE Outcome(parsed, cacheStore(cache, parsed.value.id, parsed.value)))

\* lines 761-764
editOrder(cache, reply) ==
    IF IsFailure(reply) THEN Outcome(Throw(reply.failure, <<id>>), cache)
    ELSE Bind(parseOrder(cache, reply, undefined),
              LAMBDA parsed :
                 IF parsed.threw THEN Outcome(parsed, cache)
                 ELSE Outcome(parsed, cacheStore(cache, parsed.value.id, parsed.value)))

\* lines 775-776
cancelOrder(cache, reply) ==
    IF IsFailure(reply) THEN Outcome(Throw(reply.failure, <<id>>), cache)
    ELSE Outcome(parseOrder(cache, reply, undefined), cache)

----------------------------------------------------------------------------
(* fetchOrder, fetchOpenOrder, fetchOpenOrders, fetchClosedOrders,         *)
(* fetchMyTrades, fetchOrderTrades                                         *)

\* a < b and a >= b of JavaScript: false when an operand is no number
Less(a, b) == IsNumber(a) /\ IsNumber(b) /\ a.n * b.d < b.n * a.d

Geq(a, b) == IsNumber(a) /\ IsNumber(b) /\ a.n * b.d >= b.n * a.d

\* this.market (symbol) of the base client: the market of a unified symbol
marketOfSymbol(symbol) ==
    IF \E m \in DOMAIN markets_by_id : markets_by_id[m].symbol = symbol
    THEN Return(markets_by_id[CHOOSE m \in DOMAIN markets_by_id :
                                 markets_by_id[m].symbol = symbol])
    ELSE Throw("BadSymbol", <<id, "does not have market symbol">>)

\* sortBy (array, 'timestamp') of the base client: ascending, entries with
\* equal timestamps in their order in the array
sortBy(array) ==
    LET before(i, j) ==
            \/ Less(array[i].timestamp, array[j].timestamp)
            \/ ~Less(array[j].timestamp, array[i].timestamp) /\ i < j
        rank(i) == Cardinality({j \in 1..Len(array) : before(j, i)}) + 1
    IN  [k \in 1..Len(array) |-> array[CHOOSE i \in 1..Len(array) : rank(i) = k]]

\* array.slice (0, limit)
Slice(array, limit) ==
    IF Len(array) <= limit THEN array ELSE SubSeq(array, 1, limit)

\* filterBySinceLimit (array, since, limit) of the base client
filterBySinceLimit(array, since, limit) ==
    Bind(IF since # undefined
         THEN SelectSeq(array, LAMBDA entry : Geq(entry.timestamp, since))
         ELSE array,
         LAMBDA recent : IF limit # undefined THEN Slice(recent, limit.n) ELSE recent)

\* filterBySymbolSinceLimit (array, symbol, since, limit) of the base client
filterBySymbolSinceLimit(array, symbol, since, limit) ==
    filterBySinceLimit(IF symbol # undefined
                       THEN SelectSeq(array, LAMBDA entry : entry.symbol = symbol)
                       ELSE array,
                       since, limit)

\* parseOrders (orders, market, since, limit) of the base client: each order
\* parsed, the first exception raised
parseOrders(cache, response, givenMarket, since, limit) ==
    Bind([i \in 1..Len(response) |-> parseOrder(cache, response[i], givenMarket)],
         LAMBDA parsed :
            IF \E i \in 1..Len(parsed) : parsed[i].threw
            THEN parsed[CHOOSE i \in 1..Len(parsed) :
                            /\ parsed[i].threw
                            /\ \A j \in 1..(i - 1) : ~parsed[j].threw]
            ELSE Return(filterBySymbolSinceLimit(
                            sortBy([i \in 1..Len(parsed) |-> parsed[i].value]),
                            IF givenMarket # undefined THEN givenMarket.symbol
                            ELSE undefined,
                            since, limit)))

\* lines 941-946: the market of the symbol the caller gives, if any
callerMarket(symbol) ==
    IF symbol # undefined THEN marketOfSymbol(symbol) ELSE Return(undefined)

\* faulty variant: the order fetched is written to the order cache
fetchOrder_cached(cache, reply) ==
    IF IsFailure(reply) THEN Outcome(Throw(reply.failure, <<id>>), cache)
    ELSE IF Len(reply.v) > 0
    THEN Bind(parseOrder(cache, reply.v[1], undefined),
              LAMBDA parsed :
                 IF parsed.threw THEN Outcome(parsed, cache)
                 ELSE Outcome(parsed, cacheStore(cache, parsed.value.id, parsed.value)))
    ELSE Outcome(Throw("OrderNotFound", <<id, "order", "not found">>), cache)

\* lines 920-925
fetchOrder(cache, reply) ==
    IF IsFailure(reply) THEN Outcome(Throw(reply.failure, <<id>>), cache)
    ELSE IF Len(reply.v) > 0
    THEN Outcome(parseOrder(cache, reply.v[1], undefined), cache)
    ELSE Outcome(Throw("OrderNotFound", <<id, "order", "not found">>), cache)

\* lines 936-937
fetchOpenOrder(cache, reply) ==
    IF IsFailure(reply) THEN Outcome(Throw(reply.failure, <<id>>), cache)
    ELSE Outcome(parseOrder(cache, reply, undefined), cache)

\* lines 941-949
fetchOpenOrders(cache, symbol, since, limit, reply) ==
    Bind(callerMarket(symbol),
         LAMBDA found :
            IF found.threw THEN Outcome(found, cache)
            ELSE IF IsFailure(reply) THEN Outcome(Throw(reply.failure, <<id>>), cache)
            ELSE Bind(parseOrders(cache, reply.v, found.value, since, limit),
                      LAMBDA parsed :
                         IF parsed.threw THEN Outcome(parsed, cache)
                         ELSE Outcome(Return(Arr(parsed.value)), cache)))

\* lines 967-975: the parsed orders whose status is closed or canceled
closedOrders(parsedOrders) ==
    SelectSeq(parsedOrders,
              LAMBDA order : order.status = Str("closed") \/ order.status = Str("canceled"))

\* faulty variant: since and limit are applied before the status is tested
fetchClosedOrders_limitFirst(cache, symbol, since, limit, reply) ==
    Bind(callerMarket(symbol),
         LAMBDA found :
            IF found.threw THEN Outcome(found, cache)
            ELSE IF IsFailure(reply) THEN Outcome(Throw(reply.failure, <<id>>), cache)
            ELSE Bind(parseOrders(cache, reply.v, found.value, since, limit),
                      LAMBDA parsed :
                         IF parsed.threw THEN Outcome(parsed, cache)
                         ELSE Outcome(Return(Arr(closedOrders(parsed.value))), cache)))

\* lines 953-976
fetchClosedOrders(cache, symbol, since, limit, reply) ==
    Bind(callerMarket(symbol),
         LAMBDA found :
            IF found.threw THEN Outcome(found, cache)
            ELSE IF IsFailure(reply) THEN Outcome(Throw(reply.failure, <<id>>), cache)
            ELSE Bind(parseOrders(cache, reply.v, found.value, undefined, undefined),
                      LAMBDA parsed :
                         IF parsed.threw THEN Outcome(parsed, cache)
                         ELSE Outcome(Return(Arr(filterBySinceLimit(
                                                    closedOrders(parsed.value),
                                                    since, limit))),
                                      cache)))

\* lines 990-1028, the caller giving no since: the timestamps of the trades
\* are not read
fetchMyTrades(cache, symbol, limit, reply) ==
    Bind(callerMarket(symbol),
         LAMBDA found :
            IF found.threw THEN Outcome(found, cache)
            ELSE IF IsFailure(reply) THEN Outcome(Throw(reply.failure, <<id>>), cache)
            ELSE Outcome(Return(Arr(filterBySinceLimit(
                                       parseTrades(reply.v, found.value),
                                       undefined, limit))),
                         cache))

\* lines 1035-1048, the caller giving no since
fetchOrderTrades(cache, symbol, limit, reply) ==
    Bind(callerMarket(symbol),
         LAMBDA found :
            IF found.threw THEN Outcome(found, cache)
            ELSE IF IsFailure(reply) THEN Outcome(Throw(reply.failure, <<id>>), cache)
            ELSE IF Len(reply.v) > 0
            THEN Outcome(Return(Arr(filterBySinceLimit(
                                       parseTrades(reply.v, found.value),
                                       undefined, limit))),
                         cache)
            ELSE Outcome(Throw("OrderNotFound", <<id, "order", "not found">>), cache))

----------------------------------------------------------------------------
(* Inputs of the order operations *)

MaxFills == 3

\* the i-th fill the exchange reports: 1 @ 100 with fee 0.1, 1 @ 102 with
\* fee 0.2, then fills of 1 @ 101 without a fee
Fill(i) ==
    [id |-> Num(i, 1), clientOrderId |-> undefined, symbol |-> undefined,
     side |-> undefined, quantity |-> Str("1"),
     price |-> CASE i = 1 -> Str("100") [] i = 2 -> Str("102") [] OTHER -> Str("101"),
     fee |-> CASE i = 1 -> Str("0.1") [] i = 2 -> Str("0.2") [] OTHER -> undefined]

Fills(n) == Arr([i \in 1..n |-> Fill(i)])

\* tradesReport: absent, or the first n fills
Reports == {undefined} \cup {Fills(n) : n \in 0..MaxFills}

RawOrders(ids, symbols, statuses, types, prices, quantities, cumQuantities, reports) ==
    [clientOrderId : ids, createdAt : {Str("1970-01-01T00:00:01.000Z")}, symbol : symbols, status : statuses,
     type : types, side : {Str("buy")}, price : prices, quantity : quantities,
     cumQuantity : cumQuantities, tradesReport : reports]

\* the orders handed to parseOrder
ReportedOrders ==
    RawOrders({Str("a"), Str("b")}, {Str("ETHBTC"), Str("XYZ")},
              {Str("filled"), Str("rejected")},
              {Str("limit"), Str("market")}, {undefined, Str("50")}, {Str("2")},
              {Str("0"), Str("2")}, Reports)

\* the responses of the endpoints that place, replace and cancel an order: a
\* market order, filled at once or not yet, or a resting limit order; or the
\* request fails
PlacementReplies ==
    {Failure("ExchangeNotAvailable")}
    \cup RawOrders({Str("a"), Str("b")}, {Str("ETHBTC"), Str("XYZ")},
                   {Str("new"), Str("rejected")}, {Str("market")}, {undefined},
                   {Str("2")}, {Str("2")}, {undefined, Fills(2)})
    \cup RawOrders({Str("a"), Str("b")}, {Str("ETHBTC")}, {Str("new")},
                   {Str("limit")}, {Str("100")}, {Str("2")}, {Str("0")}, {undefined})

\* the longest response of the history endpoints
MaxHistory == 2

HistoryStatuses ==
    {Str(s) : s \in {"new", "suspended", "partiallyFilled", "filled", "canceled",
                     "expired", "rejected"}}

HistoryOrder(orderId, symbol, status, createdAt, report) ==
    [clientOrderId |-> Str(orderId), createdAt |-> Str(createdAt), symbol |-> Str(symbol),
     status |-> status, type |-> Str("limit"), side |-> Str("buy"), price |-> Str("50"),
     quantity |-> Str("2"), cumQuantity |-> Str("2"), tradesReport |-> report]

\* the i-th order of a response: the first order has any status, the others
\* are filled, or new after a filled one; the orders come oldest first or
\* newest first
HistoryEntry(i, status, oldestFirst) ==
    HistoryOrder(IF i = 1 THEN "a" ELSE "b", "ETHBTC",
                 IF i = 1 THEN status
                 ELSE IF status = Str("filled") THEN Str("new") ELSE Str("filled"),
                 IF (i = 1) = oldestFirst THEN "1970-01-01T00:00:01.000Z"
                 ELSE "1970-01-01T00:00:02.000Z",
                 undefined)

\* orders of a market that is no longer listed, with and without fills
DelistedOrders ==
    {HistoryOrder("a", "XYZ", Str("filled"), "1970-01-01T00:00:01.000Z", report) :
        report \in {undefined, Fills(1)}}

\* the responses of the endpoints that list orders, or the request fails
HistoryResponses ==
    {Failure("ExchangeNotAvailable")}
    \cup {Arr([i \in 1..n |-> HistoryEntry(i, status, oldestFirst)]) :
            n \in 0..MaxHistory, status \in HistoryStatuses, oldestFirst \in BOOLEAN}
    \cup {Arr(<<order>>) : order \in DelistedOrders}

\* the response of the endpoint of one open order
OpenOrderResponses ==
    {Failure("ExchangeNotAvailable")}
    \cup {HistoryEntry(1, status, TRUE) : status \in HistoryStatuses}
    \cup DelistedOrders

\* the responses of the endpoints that list the account's trades
TradeResponses ==
    {Failure("ExchangeNotAvailable")}
    \cup {Arr([i \in 1..n |-> [Fill(i) EXCEPT !.symbol = Str("ETHBTC"),
                                             !.clientOrderId = Str("a")]]) :
            n \in 0..MaxHistory}

\* the symbol, since and limit of the caller
ListSymbols == {undefined, Str("ETH/BTC"), Str("XYZ/BTC")}

Sinces == {undefined, Num(2000, 1)}

Limits == {undefined, Num(1, 1)}

Statuses ==
    {undefined} \cup {Str(s) : s \in {"new", "suspended", "partiallyFilled", "filled",
                                      "canceled", "expired", "rejected", "open"}}

----------------------------------------------------------------------------
(* The adapter as a state machine.  An operation runs to its end in one    *)
(* step; the caller then takes its outcome and the adapter is idle again.  *)

EmptyCache == [k \in {} |-> undefined]

Init ==
    /\ orders = EmptyCache
    /\ op = "idle"
    /\ args = << >>
    /\ ret = Return(undefined)

ParseOrderStatus ==
    /\ op = "idle"
    /\ \E status \in Statuses :
          /\ op' = "parseOrderStatus"
          /\ args' = [status |-> status]
          /\ ret' = Return(parseOrderStatus(status))
          /\ UNCHANGED orders

\* parseOrder (order), the market left out as the order operations do
ParseOrder ==
    /\ op = "idle"
    /\ \E order \in ReportedOrders :
          /\ op' = "parseOrder"
          /\ args' = [order |-> order]
          /\ ret' = parseOrder(orders, order, undefined)
          /\ UNCHANGED orders

CreateOrder ==
    /\ op = "idle"
    /\ \E reply \in PlacementReplies :
          \E outcome \in {createOrder(orders, reply)} :
             /\ op' = "createOrder"
             /\ args' = [reply |-> reply]
             /\ ret' = outcome.ret
             /\ orders' = outcome.orders

EditOrder ==
    /\ op = "idle"
    /\ \E reply \in PlacementReplies :
          \E outcome \in {editOrder(orders, reply)} :
             /\ op' = "editOrder"
             /\ args' = [reply |-> reply]
             /\ ret' = outcome.ret
             /\ orders' = outcome.orders

CancelOrder ==
    /\ op = "idle"
    /\ \E reply \in PlacementReplies :
          \E outcome \in {cancelOrder(orders, reply)} :
             /\ op' = "cancelOrder"
             /\ args' = [reply |-> reply]
             /\ ret' = outcome.ret
             /\ orders' = outcome.orders

FetchOrder ==
    /\ op = "idle"
    /\ \E reply \in HistoryResponses :
          \E outcome \in {fetchOrder(orders, reply)} :
             /\ op' = "fetchOrder"
             /\ args' = [reply |-> reply]
             /\ ret' = outcome.ret
             /\ orders' = outcome.orders

FetchOpenOrder ==
    /\ op = "idle"
    /\ \E reply \in OpenOrderResponses :
          \E outcome \in {fetchOpenOrder(orders, reply)} :
             /\ op' = "fetchOpenOrder"
             /\ args' = [reply |-> reply]
             /\ ret' = outcome.ret
             /\ orders' = outcome.orders

FetchOpenOrders ==
    /\ op = "idle"
    /\ \E symbol \in ListSymbols, limit \in Limits, reply \in HistoryResponses :
          \E outcome \in {fetchOpenOrders(orders, symbol, undefined, limit, reply)} :
             /\ op' = "fetchOpenOrders"
             /\ args' = [symbol |-> symbol, since |-> undefined, limit |-> limit,
                         reply |-> reply]
             /\ ret' = outcome.ret
             /\ orders' = outcome.orders

FetchClosedOrders ==
    /\ op = "idle"
    /\ \E symbol \in ListSymbols, since \in Sinces, limit \in Limits,
          reply \in HistoryResponses :
          \E outcome \in {fetchClosedOrders(orders, symbol, since, limit, reply)} :
             /\ op' = "fetchClosedOrders"
             /\ args' = [symbol |-> symbol, since |-> since, limit |-> limit,
                         reply |-> reply]
             /\ ret' = outcome.ret
             /\ orders' = outcome.orders

FetchMyTrades ==
    /\ op = "idle"
    /\ \E symbol \in ListSymbols, limit \in Limits, reply \in TradeResponses :
          \E outcome \in {fetchMyTrades(orders, symbol, limit, reply)} :
             /\ op' = "fetchMyTrades"
             /\ args' = [symbol |-> symbol, limit |-> limit, reply |-> reply]
             /\ ret' = outcome.ret
             /\ orders' = outcome.orders

FetchOrderTrades ==
    /\ op = "idle"
    /\ \E symbol \in ListSymbols, limit \in Limits, reply \in TradeResponses :
          \E outcome \in {fetchOrderTrades(orders, symbol, limit, reply)} :
             /\ op' = "fetchOrderTrades"
             /\ args' = [symbol |-> symbol, limit |-> limit, reply |-> reply]
             /\ ret' = outcome.ret
             /\ orders' = outcome.orders

\* the caller takes the outcome
Resume ==
    /\ op # "idle"
    /\ op' = "idle"
    /\ args' = << >>
    /\ ret' = Return(undefined)
    /\ UNCHANGED orders

Next ==
    \/ ParseOrderStatus
    \/ ParseOrder
    \/ CreateOrder
    \/ EditOrder
    \/ CancelOrder
    \/ FetchOrder
    \/ FetchOpenOrder
    \/ FetchOpenOrders
    \/ FetchClosedOrders
    \/ FetchMyTrades
    \/ FetchOrderTrades
    \/ Resume

Spec == Init /\ [][Next]_vars

----------------------------------------------------------------------------
(* Claims about the order parser and the order operations, checked under   *)
(* Spec                                                                    *)

\* the kinds of the unified statuses the specification lists
ListedStatus(status) ==
    IF status \in {Str("new"), Str("suspended"), Str("partiallyFilled")} THEN Str("open")
    ELSE IF status = Str("filled") THEN Str("closed")
    ELSE IF status = Str("canceled") THEN Str("canceled")
    ELSE IF status = Str("expired") THEN Str("failed")
    ELSE status

\* C6: parseOrderStatus maps new, suspended and partiallyFilled to open,
\* filled to closed, canceled to canceled, expired to failed, and returns every
\* other status unchanged.
C6_StatusMapping ==
    op = "parseOrderStatus" => ret = Return(ListedStatus(args.status))

C6_Witness ==
    \/ op = "parseOrderStatus" /\ args.status = Str("rejected")
        /\ ret.value = Str("rejected")
    \/ op = "parseOrderStatus" /\ args.status = Str("partiallyFilled")
        /\ ret.value = Str("open")

\* parseOrder returned a unified order
Parsed == op = "parseOrder" /\ ~ret.threw

\* the raw order's id is a key of the order cache
Cached(order) == ToKey(order.clientOrderId) \in DOMAIN orders

CachedPrice(order) == orders[ToKey(order.clientOrderId)].price

\* the price after the response and the cache were looked at (lines 837-842)
PriceAfterLookup(order) ==
    IF order.price # undefined THEN safeFloat(order.price, undefined)
    ELSE IF Cached(order) THEN CachedPrice(order)
    ELSE undefined

\* the fills set the price: a market order with fills, a filled quantity
\* above zero and no price from the response or the cache
FillsSetPrice(order) ==
    /\ order.tradesReport # undefined
    /\ order.type = Str("market")
    /\ Positive(safeFloat(order.cumQuantity, undefined))
    /\ PriceAfterLookup(order) = undefined

\* C7: a raw order without a price whose id is cached is parsed with the
\* cached order's price, unless the fills set the price; a raw order with a
\* price is parsed with that price, never the cached one.
C7_PriceBackfill ==
    Parsed =>
        /\ (args.order.price = undefined /\ Cached(args.order)
                /\ ~FillsSetPrice(args.order))
           => ret.value.price = CachedPrice(args.order)
        /\ args.order.price = Str("50") => ret.value.price = Num(50, 1)

C7_Witness ==
    /\ Parsed
    /\ args.order.price = undefined
    /\ Cached(args.order)
    /\ CachedPrice(args.order) = Num(100, 1)
    /\ ret.value.price = Num(100, 1)

\* price * quantity summed over the first n raw fills
RECURSIVE FillsCost(_, _)
FillsCost(fills, n) ==
    IF n = 0 THEN Num(0, 1)
    ELSE Plus(FillsCost(fills, n - 1),
              Times(parseFloat(fills[n].price), parseFloat(fills[n].quantity)))

\* the fees summed over the first n raw fills
RECURSIVE FillsFee(_, _)
FillsFee(fills, n) ==
    IF n = 0 THEN Num(0, 1)
    ELSE IF fills[n].fee = undefined THEN FillsFee(fills, n - 1)
    ELSE Plus(FillsFee(fills, n - 1), parseFloat(fills[n].fee))

\* C8: with embedded fills the parsed order's cost is the sum of price *
\* quantity over the fills, its fee cost the sum of the fills' fees (one fill
\* at least) and its average the summed cost divided by the filled quantity
\* (above zero), whatever the order-level price; the fills 1 @ 100 fee 0.1 and
\* 1 @ 102 fee 0.2 give cost 202, fee 0.3 and average 101.
C8_FillAggregation ==
    (Parsed /\ args.order.tradesReport # undefined) =>
        LET fills == args.order.tradesReport.v
            filled == safeFloat(args.order.cumQuantity, undefined)
        IN  /\ ret.value.cost = FillsCost(fills, Len(fills))
            /\ Len(fills) > 0 => ret.value.fee.cost = FillsFee(fills, Len(fills))
            /\ Positive(filled) => ret.value.average = Divide(ret.value.cost, filled)
            /\ (args.order.tradesReport = Fills(2) /\ args.order.cumQuantity = Str("2"))
               => /\ ret.value.cost = Num(202, 1)
                  /\ ret.value.fee.cost = Num(3, 10)
                  /\ ret.value.average = Num(101, 1)

C8_Witness ==
    /\ Parsed
    /\ args.order.tradesReport = Fills(2)
    /\ args.order.cumQuantity = Str("2")
    /\ args.order.price = Str("50")
    /\ ret.value.cost = Num(202, 1)
    /\ ret.value.fee.cost = Num(3, 10)
    /\ ret.value.average = Num(101, 1)

\* C9: with embedded fills, a market order whose price is still unset after
\* the cache lookup gets the computed average as its price; for any other
\* type, or with a price from the response or the cache, the price is the one
\* looked up, not the average.
C9_MarketOrderPrice ==
    (Parsed /\ args.order.tradesReport # undefined) =>
        IF args.order.type = Str("market") /\ PriceAfterLookup(args.order) = undefined
        THEN ret.value.price = ret.value.average
        ELSE ret.value.price = PriceAfterLookup(args.order)

C9_Witness ==
    /\ Parsed
    /\ args.order.tradesReport = Fills(2)
    /\ args.order.type = Str("market")
    /\ args.order.cumQuantity = Str("2")
    /\ PriceAfterLookup(args.order) = undefined
    /\ ret.value.price = Num(101, 1)

\* C10: createOrder on a response with status "rejected" raises InvalidOrder
\* and leaves the order cache as it was; on any other response it stores the
\* parsed order under its id, replacing a prior entry, and returns it.
\* The code raises a TypeError instead when the response embeds fills and
\* its symbol is not in markets_by_id.
C10_CreateOrder ==
    [][(op' = "createOrder" /\ ~IsFailure(args'.reply)) =>
        IF args'.reply.status = Str("rejected")
        THEN ret'.threw /\ ret'.kind = "InvalidOrder" /\ orders' = orders
        ELSE /\ ~ret'.threw
             /\ ret' = parseOrder(orders, args'.reply, undefined)
             /\ orders' = cacheStore(orders, ret'.value.id, ret'.value)]_vars

\* C11: after each createOrder, editOrder and cancelOrder call that returns,
\* the cache entry under the returned order's id is the order returned
C11_CacheUpdate ==
    [][(op' \in {"createOrder", "editOrder", "cancelOrder"} /\ ~ret'.threw) =>
          /\ ToKey(ret'.value.id) \in DOMAIN orders'
          /\ orders'[ToKey(ret'.value.id)] = ret'.value]_vars

\* the order handed to parseOrder embeds fills and its symbol id is absent
\* or not in markets_by_id
UnresolvedWithFills(order) ==
    /\ order.tradesReport # undefined
    /\ order.symbol = undefined \/ ~InMarketsById(order.symbol)

\* C21: parseOrder of an order that embeds fills and whose symbol id is
\* absent or not in markets_by_id, no market given by the caller, returns a
\* unified order whose symbol is the raw symbol id and raises nothing.
\* The code raises a TypeError at market['quote'] as soon as the order has
\* one fill.
C21_UnresolvedMarketParses ==
    (op = "parseOrder" /\ UnresolvedWithFills(args.order)) =>
        /\ ~ret.threw
        /\ ret.value.symbol = args.order.symbol

\* C22: only createOrder and editOrder calls that return write the order
\* cache, and they write the returned order under its id, leaving every
\* other entry as it was; every other operation (parseOrder, fetchOrder,
\* fetchOpenOrder, fetchOpenOrders, fetchClosedOrders, fetchMyTrades,
\* fetchOrderTrades, cancelOrder, a call that raises) leaves the cache
\* unchanged.  So the cache holds exactly the orders written by the
\* createOrder and editOrder calls that returned, the latest per id.
C22_CacheFrame ==
    [][IF op' \in {"createOrder", "editOrder"} /\ ~ret'.threw
       THEN /\ DOMAIN orders' = DOMAIN orders \cup {ToKey(ret'.value.id)}
            /\ \A k \in DOMAIN orders' :
                  orders'[k] = IF k = ToKey(ret'.value.id) THEN ret'.value ELSE orders[k]
       ELSE orders' = orders]_vars

\* orders listed from a history of two orders while the cache holds the
\* orders a and b
C22_Witness ==
    /\ op = "fetchClosedOrders"
    /\ ~ret.threw
    /\ Len(ret.value.v) > 0
    /\ DOMAIN orders = {"a", "b"}
    /\ orders["a"].price = Num(100, 1)

\* the raw order's status maps to closed or canceled
RawClosed(order) == order.status \in {Str("filled"), Str("canceled")}

ClosedOrCanceled(order) == order.status \in {Str("closed"), Str("canceled")}

\* the order is of the market the caller asked for, if any
Requested(order) ==
    args.symbol = undefined \/ order.symbol = callerMarket(args.symbol).value.id

----------------------------------------------------------------------------
(* The request signer.  A parameter map is the sequence of its members in  *)
(* insertion order; a URL is the sequence of the pieces it is joined from. *)

version == "2"

Member(key, value) == [key |-> key, value |-> value]

Keys(params) == {params[i].key : i \in DOMAIN params}

Lookup(params, key) == params[CHOOSE i \in DOMAIN params : params[i].key = key].value

\* this.omit (params, keys)
omit(params, keys) == SelectSeq(params, LAMBDA member : member.key \notin keys)

\* this.extend (request, params): the members of request, overridden by
\* those of params, then the members only params has
extend(request, params) ==
    [i \in DOMAIN request |->
        IF request[i].key \in Keys(params)
        THEN Member(request[i].key, Lookup(params, request[i].key))
        ELSE request[i]]
    \o omit(params, Keys(request))

\* String (value)
ToText(x) ==
    IF x.t = "string" THEN x.v
    ELSE IF x.t = "number" THEN NumberToString(x)
    ELSE IF x.t = "boolean" THEN (IF x.v THEN "true" ELSE "false")
    ELSE x.t

\* a path template: its segments, joined by '/', literal or {parameter}
Lit(name) == [kind |-> "lit", name |-> name]

Par(name) == [kind |-> "param", name |-> name]

\* this.extractParams (path)
extractParams(path) == {path[i].name : i \in {j \in DOMAIN path : path[j].kind = "param"}}

\* this.implodeParams (path, params): every {key} with a member of params
\* replaced by its value; a placeholder without a member stays
implodeParams(path, params) ==
    [i \in 1..(2 * Len(path) - 1) |->
        IF i % 2 = 0 THEN "/"
        ELSE LET segment == path[(i + 1) \div 2]
             IN  IF segment.kind = "lit" THEN segment.name
                 ELSE IF segment.name \in Keys(params)
                 THEN ToText(Lookup(params, segment.name))
                 ELSE "{" \o segment.name \o "}"]

\* this.urlencode (query): key=value joined by '&'
urlencode(query) ==
    [i \in 1..(4 * Len(query) - 1) |->
        LET member == query[(i + 3) \div 4]
        IN  CASE i % 4 = 1 -> member.key
              [] i % 4 = 2 -> "="
              [] i % 4 = 3 -> ToText(member.value)
              [] OTHER -> "&"]

\* this.json (query): the JSON text of an object, given by its members; a
\* member whose value is undefined is left out
json(query) ==
    [t |-> "json", v |-> SelectSeq(query, LAMBDA member : member.value.t # "undefined")]

\* if (x): the truthiness of JavaScript
Truthy(x) ==
    CASE x.t = "undefined" -> FALSE
      [] x.t = "NaN" -> FALSE
      [] x.t = "string" -> Len(x.v) > 0
      [] x.t = "number" -> x.n # 0
      [] x.t = "boolean" -> x.v
      [] OTHER -> TRUE
\* the character codes of the characters credentials are written in
CharCode(c) ==
    CASE c = "k" -> 107 [] c = "e" -> 101 [] c = "y" -> 121
      [] c = "s" -> 115 [] c = ":" -> 58

\* this.encode (string): the bytes of a string of characters
encode(chars) == [i \in DOMAIN chars |-> CharCode(chars[i])]

Base64Alphabet ==
    <<"A", "B", "C", "D", "E", "F", "G", "H", "I", "J", "K", "L", "M",
      "N", "O", "P", "Q", "R", "S", "T", "U", "V", "W", "X", "Y", "Z",
      "a", "b", "c", "d", "e", "f", "g", "h", "i", "j", "k", "l", "m",
      "n", "o", "p", "q", "r", "s", "t", "u", "v", "w", "x", "y", "z",
      "0", "1", "2", "3", "4", "5", "6", "7", "8", "9", "+", "/">>

ByteAt(bytes, i) == IF i \in DOMAIN bytes THEN bytes[i] ELSE 0

\* this.stringToBase64 (payload): three bytes become four characters, an
\* incomplete last group is padded with '='
stringToBase64(bytes) ==
    [i \in 1..(4 * ((Len(bytes) + 2) \div 3)) |->
        LET group == (i - 1) \div 4
            first == 3 * group + 1
            word == ByteAt(bytes, first) * 65536 + ByteAt(bytes, first + 1) * 256
                    + ByteAt(bytes, first + 2)
            position == (i - 1) % 4
        IN  CASE position = 0 -> Base64Alphabet[(word \div 262144) + 1]
              [] position = 1 -> Base64Alphabet[((word \div 4096) % 64) + 1]
              [] position = 2 ->
                    IF first + 1 > Len(bytes) THEN "="
                    ELSE Base64Alphabet[((word \div 64) % 64) + 1]
              [] OTHER ->
                    IF first + 2 > Len(bytes) THEN "="
                    ELSE Base64Alphabet[(word % 64) + 1]]

\* this.checkRequiredCredentials (): apiKey and secret are required
checkRequiredCredentials(apiKey, secret) ==
    IF ~Truthy(apiKey) THEN Throw("AuthenticationError", <<id, "apiKey">>)
    ELSE IF ~Truthy(secret) THEN Throw("AuthenticationError", <<id, "secret">>)
    ELSE Return(undefined)

\* this.urls['api'][api]
urls_api(api) == "https://api.hitbtc.com"

\* faulty variant: the secret alone is encoded
authorization_secretOnly(apiKey, secret) ==
    <<"Basic ">> \o stringToBase64(encode(secret.v))

\* lines 1125-1130
authorization(apiKey, secret) ==
    <<"Basic ">> \o stringToBase64(encode(apiKey.v \o <<":">> \o secret.v))

\* lines 1114-1117 and 1120-1124: the query appended to the URL
withQuery(url, query) ==
    IF Len(query) > 0 THEN url \o <<"?">> \o urlencode(query) ELSE url

\* faulty variant: the parameters of the path are not taken out of the query
sign_keepPathParams(path, api, method, params, apiKey, secret) ==
    IF api = "public"
    THEN Return([url |-> withQuery(<<urls_api(api), "/api/", version, "/", api, "/">>
                                   \o implodeParams(path, params), params),
                 method |-> method, body |-> undefined, headers |-> undefined])
    ELSE Return([url |-> IF method = "GET"
                         THEN withQuery(<<urls_api(api), "/api/", version, "/">>
                                        \o implodeParams(path, params), params)
                         ELSE <<urls_api(api), "/api/", version, "/">>
                              \o implodeParams(path, params),
                 method |-> method,
                 body |-> IF method # "GET" /\ Len(params) > 0 THEN json(params)
                          ELSE undefined,
                 headers |-> undefined])

\* sign (path, api, method, params) with headers and body left undefined, as
\* the endpoint methods call it; apiKey and secret are this.apiKey and
\* this.secret
sign(path, api, method, params, apiKey, secret) ==
    LET query == omit(params, extractParams(path))
        prefix == <<urls_api(api), "/api/", version, "/">>
    IN  IF api = "public"
        THEN Return([url |-> withQuery(prefix \o <<api, "/">> \o implodeParams(path, params),
                                       query),
                     method |-> method, body |-> undefined, headers |-> undefined])
        ELSE IF checkRequiredCredentials(apiKey, secret).threw
        THEN checkRequiredCredentials(apiKey, secret)
        ELSE Return([url |-> IF method = "GET"
                             THEN withQuery(prefix \o implodeParams(path, params), query)
                             ELSE prefix \o implodeParams(path, params),
                     method |-> method,
                     body |-> IF method # "GET" /\ Len(query) > 0 THEN json(query)
                              ELSE undefined,
                     headers |-> [t |-> "object", Authorization |-> authorization(apiKey, secret),
                                  ContentType |-> "application/json"]])
\* describe (): the endpoints, as the paths of an api and a method
Paths(api, method) ==
    CASE api = "public" /\ method = "GET" ->
            {<<Lit("symbol")>>,
             <<Lit("symbol"), Par("symbol")>>,
             <<Lit("currency")>>,
             <<Lit("currency"), Par("currency")>>,
             <<Lit("ticker")>>,
             <<Lit("ticker"), Par("symbol")>>,
             <<Lit("trades")>>,
             <<Lit("trades"), Par("symbol")>>,
             <<Lit("orderbook")>>,
             <<Lit("orderbook"), Par("symbol")>>,
             <<Lit("candles")>>,
             <<Lit("candles"), Par("symbol")>>}
      [] api = "private" /\ method = "GET" ->
            {<<Lit("trading"), Lit("balance")>>,
             <<Lit("order")>>,
             <<Lit("order"), Par("clientOrderId")>>,
             <<Lit("trading"), Lit("fee"), Lit("all")>>,
             <<Lit("trading"), Lit("fee"), Par("symbol")>>,
             <<Lit("history"), Lit("order")>>,
             <<Lit("history"), Lit("trades")>>,
             <<Lit("history"), Lit("order"), Par("orderId"), Lit("trades")>>,
             <<Lit("account"), Lit("balance")>>,
             <<Lit("account"), Lit("crypto"), Lit("address"), Par("currency")>>,
             <<Lit("account"), Lit("crypto"), Lit("is-mine"), Par("address")>>,
             <<Lit("account"), Lit("transactions")>>,
             <<Lit("account"), Lit("transactions"), Par("id")>>,
             <<Lit("sub-acc")>>,
             <<Lit("sub-acc"), Lit("acl")>>,
             <<Lit("sub-acc"), Lit("balance"), Par("subAccountUserID")>>,
             <<Lit("sub-acc"), Lit("deposit-address"), Par("subAccountUserId"), Par("currency")>>}
      [] api = "private" /\ method = "POST" ->
            {<<Lit("order")>>,
             <<Lit("account"), Lit("crypto"), Lit("address"), Par("currency")>>,
             <<Lit("account"), Lit("crypto"), Lit("withdraw")>>,
             <<Lit("account"), Lit("crypto"), Lit("transfer-convert")>>,
             <<Lit("account"), Lit("transfer")>>,
             <<Lit("sub-acc"), Lit("freeze")>>,
             <<Lit("sub-acc"), Lit("activate")>>,
             <<Lit("sub-acc"), Lit("transfer")>>}
      [] api = "private" /\ method = "PUT" ->
            {<<Lit("order"), Par("clientOrderId")>>,
             <<Lit("account"), Lit("crypto"), Lit("withdraw"), Par("id")>>,
             <<Lit("sub-acc"), Lit("acl"), Par("subAccountUserId")>>}
      [] api = "private" /\ method = "DELETE" ->
            {<<Lit("order")>>,
             <<Lit("order"), Par("clientOrderId")>>,
             <<Lit("account"), Lit("crypto"), Lit("withdraw"), Par("id")>>}
      [] api = "private" /\ method = "PATCH" ->
            {<<Lit("order"), Par("clientOrderId")>>}
      [] OTHER -> {}

Endpoints ==
    UNION {{[api |-> api, method |-> method, path |-> path] : path \in Paths(api, method)} :
              <<api, method>> \in {"public", "private"}
                                  \X {"GET", "POST", "PUT", "DELETE", "PATCH"}}
----------------------------------------------------------------------------
(* withdraw *)

\* this.checkAddress (address)
checkAddress(address) ==
    IF address.t = "undefined" THEN Throw("InvalidAddress", <<id, "address">>)
    ELSE Return(address)

\* faulty variant: the tag is sent whatever it is
withdrawRequest_alwaysTag(currencyId, amount, address, tag) ==
    <<Member("currency", currencyId), Member("amount", parseFloat(amount)),
      Member("address", address), Member("paymentId", tag)>>

\* lines 1091-1098
withdrawRequest(currencyId, amount, address, tag) ==
    <<Member("currency", currencyId), Member("amount", parseFloat(amount)),
      Member("address", address)>>
    \o (IF Truthy(tag) THEN <<Member("paymentId", tag)>> ELSE << >>)

\* withdraw (code, amount, address, tag, params): the request the signer
\* hands to the transport (undefined when none is sent) and the outcome,
\* given the reply of the endpoint
withdraw(code, amount, address, tag, params, apiKey, secret, reply) ==
    IF checkAddress(address).threw
    THEN [request |-> undefined, ret |-> checkAddress(address)]
    ELSE LET signed == sign(<<Lit("account"), Lit("crypto"), Lit("withdraw")>>,
                            "private", "POST",
                            extend(withdrawRequest(code, amount, address, tag), params),
                            apiKey, secret)
         IN  IF signed.threw THEN [request |-> undefined, ret |-> signed]
             ELSE IF IsFailure(reply)
             THEN [request |-> signed.value, ret |-> Throw(reply.failure, <<id>>)]
             ELSE [request |-> signed.value,
                   ret |-> Return([info |-> reply, id |-> reply.id])]

----------------------------------------------------------------------------
(* Inputs of the signer and of withdraw *)

\* this.apiKey and this.secret: unset, empty or set
ApiKeys == {undefined, Str(<< >>), Str(<<"k">>), Str(<<"k", "e", "y">>)}

Secrets == {undefined, Str(<< >>), Str(<<"s">>)}

SignMembers ==
    {Member("symbol", Str("ETHBTC")), Member("clientOrderId", Str("a")),
     Member("currency", Str("BTC")), Member("limit", Num(100, 1))}

\* the parameter maps of at most two members
SignParams ==
    {<< >>} \cup {<<m>> : m \in SignMembers}
    \cup {<<m, n>> : <<m, n>> \in {p \in SignMembers \X SignMembers : p[1].key # p[2].key}}

Tags == {undefined, Str(""), Str("t")}

WithdrawParams ==
    {<< >>, <<Member("paymentId", Str("p"))>>, <<Member("includeFee", Str("true"))>>}

WithdrawReplies == {Failure("ExchangeNotAvailable"), [id |-> Str("w1")]}

----------------------------------------------------------------------------
(* The signer as a state machine: the endpoint methods call sign for the   *)
(* endpoints of describe (); withdraw calls it for its one endpoint.       *)

InitSign ==
    /\ orders = << >>
    /\ op = "init"
    /\ args = << >>
    /\ ret = Return(undefined)

Sign ==
    /\ op = "init"
    /\ \E endpoint \in Endpoints, params \in SignParams,
       apiKey \in ApiKeys, secret \in Secrets :
        /\ op' = "sign"
        /\ args' = [path |-> endpoint.path, api |-> endpoint.api,
                    method |-> endpoint.method, params |-> params,
                    apiKey |-> apiKey, secret |-> secret]
        /\ ret' = sign(endpoint.path, endpoint.api, endpoint.method, params,
                       apiKey, secret)
        /\ UNCHANGED orders

Withdraw ==
    /\ op = "init"
    /\ \E amount \in {Str("1"), Num(2, 1)}, address \in {undefined, Str("addr")},
       tag \in Tags, params \in WithdrawParams,
       apiKey \in ApiKeys, secret \in Secrets, reply \in WithdrawReplies :
        \E outcome \in {withdraw(Str("BTC"), amount, address, tag, params,
                                 apiKey, secret, reply)} :
            /\ op' = "withdraw"
            /\ args' = [amount |-> amount, address |-> address, tag |-> tag,
                        params |-> params, apiKey |-> apiKey, secret |-> secret,
                        reply |-> reply, request |-> outcome.request]
            /\ ret' = outcome.ret
            /\ UNCHANGED orders

\* the caller takes the outcome
ResumeSign ==
    /\ op \in {"sign", "withdraw"}
    /\ op' = "init"
    /\ args' = << >>
    /\ ret' = Return(undefined)
    /\ UNCHANGED orders

NextSign == Sign \/ Withdraw \/ ResumeSign

SpecSign == InitSign /\ [][NextSign]_vars

----------------------------------------------------------------------------
(* Claims about the signer and withdraw, checked under SpecSign *)

\* withdraw handed a signed request to the transport
WithdrawSent == op = "withdraw" /\ args.request # undefined

\* the members of the JSON body of a request
BodyMembers(request) == IF request.body.t = "json" THEN request.body.v ELSE << >>

\* C12 as stated: a non-empty tag is the paymentId of the signed body; with an
\* empty or absent tag the body has no paymentId, unless params has one
C12_TagInBody ==
    WithdrawSent =>
        LET body == BodyMembers(args.request)
        IN  IF Truthy(args.tag)
            THEN "paymentId" \in Keys(body) /\ Lookup(body, "paymentId") = args.tag
            ELSE "paymentId" \in Keys(body) => "paymentId" \in Keys(args.params)

\* C12, amended: a paymentId of params is the paymentId of the signed body;
\* without one, a non-empty tag is the paymentId of the body and with an
\* empty or absent tag the body has no paymentId
C12_TagInBodyUnlessParams ==
    WithdrawSent =>
        LET body == BodyMembers(args.request)
        IN  IF "paymentId" \in Keys(args.params)
            THEN /\ "paymentId" \in Keys(body)
                 /\ Lookup(body, "paymentId") = Lookup(args.params, "paymentId")
            ELSE IF Truthy(args.tag)
            THEN "paymentId" \in Keys(body) /\ Lookup(body, "paymentId") = args.tag
            ELSE "paymentId" \notin Keys(body)

C12_Witness ==
    /\ WithdrawSent
    /\ args.tag = Str("t")
    /\ args.params = << >>
    /\ Member("paymentId", Str("t")) \in {BodyMembers(args.request)[i] :
                                             i \in DOMAIN BodyMembers(args.request)}

Signed == op = "sign"

CredentialsPresent == Truthy(args.apiKey) /\ Truthy(args.secret)

\* C13: a private call without credentials fails with an authentication
\* error and returns no request; with credentials its Authorization header
\* is "Basic " + base64 (apiKey ':' secret); a public call checks no
\* credentials and carries no Authorization header
C13_SignCredentials ==
    Signed =>
        IF args.api = "public"
        THEN ~ret.threw /\ ret.value.headers.t = "undefined"
        ELSE IF ~CredentialsPresent
        THEN ret.threw /\ ret.kind = "AuthenticationError"
        ELSE /\ ~ret.threw
             /\ ret.value.headers.t = "object"
             /\ ret.value.headers.Authorization =
                    <<"Basic ">> \o stringToBase64(encode(args.apiKey.v \o <<":">>
                                                          \o args.secret.v))

\* base64 ("key:s") is "a2V5OnM="
C13_Witness ==
    /\ Signed
    /\ args.api = "private"
    /\ args.apiKey = Str(<<"k", "e", "y">>)
    /\ args.secret = Str(<<"s">>)
    /\ ~ret.threw
    /\ ret.value.headers.Authorization =
           <<"Basic ", "a", "2", "V", "5", "O", "n", "M", "=">>

\* sign returned a request
SignReturned == op = "sign" /\ ~ret.threw

\* the place of '?' in a URL, 0 when it has none
QueryStart(url) ==
    IF \E i \in DOMAIN url : url[i] = "?"
    THEN CHOOSE i \in DOMAIN url : url[i] = "?"
    ELSE 0

\* the key=value pairs of the query string of a URL, read off its text
QueryPairs(url) ==
    IF QueryStart(url) = 0 THEN << >>
    ELSE [j \in 1..((Len(url) - QueryStart(url) + 1) \div 4) |->
             <<url[QueryStart(url) + 4 * j - 3], url[QueryStart(url) + 4 * j - 1]>>]

\* the part of a URL before its query string, without scheme, host and the
\* prefix /api/2/ (and public/)
UrlPath(url, api) ==
    SubSeq(url, IF api = "public" THEN 7 ELSE 5,
           IF QueryStart(url) = 0 THEN Len(url) ELSE QueryStart(url) - 1)

\* the parameters a path template does not name
Remaining(params, path) ==
    SelectSeq(params,
              LAMBDA member : \A i \in DOMAIN path :
                                 path[i].kind = "param" => path[i].name # member.key)

\* C14: a parameter the path names is substituted into the URL and is neither
\* in the query string nor in the body; the remaining parameters are the
\* query string of a GET and the JSON body of any other method, never both;
\* with none remaining the body is unset and the URL has no '?'
C14_SignPlacesParams ==
    SignReturned =>
        LET url == ret.value.url
            rest == Remaining(args.params, args.path)
            pairs == [j \in DOMAIN rest |-> <<rest[j].key, ToText(rest[j].value)>>]
        IN  /\ \A i \in DOMAIN args.path :
                  (args.path[i].kind = "param" /\ args.path[i].name \in Keys(args.params)) =>
                      /\ UrlPath(url, args.api)[2 * i - 1] =
                             ToText(Lookup(args.params, args.path[i].name))
                      /\ \A j \in DOMAIN QueryPairs(url) :
                             QueryPairs(url)[j][1] # args.path[i].name
                      /\ args.path[i].name \notin Keys(BodyMembers(ret.value))
            /\ IF args.method = "GET"
               THEN QueryPairs(url) = pairs /\ ret.value.body.t = "undefined"
               ELSE /\ QueryStart(url) = 0
                    /\ IF Len(rest) = 0 THEN ret.value.body.t = "undefined"
                       ELSE ret.value.body.t = "json" /\ ret.value.body.v = rest
            /\ Len(rest) = 0 => QueryStart(url) = 0

C14_Witness ==
    /\ SignReturned
    /\ args.method = "PATCH"
    /\ args.path = <<Lit("order"), Par("clientOrderId")>>
    /\ args.params = <<Member("symbol", Str("ETHBTC")), Member("clientOrderId", Str("a"))>>
    /\ ret.value.url = <<"https://api.hitbtc.com", "/api/", "2", "/", "order", "/", "a">>
    /\ ret.value.body = [t |-> "json", v |-> <<Member("symbol", Str("ETHBTC"))>>]

----------------------------------------------------------------------------
(* The parsers of the public data: tickers, currencies, markets,           *)
(* transactions                                                            *)

\* lines 427-436, with last and open parsed
tickerChange(last, open) ==
    IF last # undefined /\ open # undefined
    THEN [change |-> Minus(last, open),
          average |-> Divide(sum(last, open), Num(2, 1)),
          percentage |-> IF Positive(open)
                         THEN Times(Divide(Minus(last, open), open), Num(100, 1))
                         ELSE undefined]
    ELSE [change |-> undefined, average |-> undefined, percentage |-> undefined]

\* faulty variant: the base volume is not compared with zero
tickerVwap_unguarded(quoteVolume, baseVolume) ==
    IF quoteVolume # undefined /\ baseVolume # undefined
    THEN Divide(quoteVolume, baseVolume)
    ELSE undefined

\* lines 437-444
tickerVwap(quoteVolume, baseVolume) ==
    IF quoteVolume # undefined /\ baseVolume # undefined /\ Positive(baseVolume)
    THEN Divide(quoteVolume, baseVolume)
    ELSE undefined

parseTicker(ticker, market) ==
    Bind(<<safeFloat(ticker.volume, undefined), safeFloat(ticker.volumeQuote, undefined),
           safeFloat(ticker.open, undefined), safeFloat(ticker.last, undefined),
           parse8601(ticker.timestamp)>>,
         LAMBDA p :
            Bind(tickerChange(p[4], p[3]),
                 LAMBDA derived :
                    [symbol |-> IF market # undefined THEN market.symbol ELSE undefined,
                     timestamp |-> p[5],
                     datetime |-> iso8601(p[5]),
                     high |-> safeFloat(ticker.high, undefined),
                     low |-> safeFloat(ticker.low, undefined),
                     bid |-> safeFloat(ticker.bid, undefined),
                     bidVolume |-> undefined,
                     ask |-> safeFloat(ticker.ask, undefined),
                     askVolume |-> undefined,
                     vwap |-> tickerVwap(p[2], p[1]),
                     open |-> p[3],
                     close |-> p[4],
                     last |-> p[4],
                     previousClose |-> undefined,
                     change |-> derived.change,
                     percentage |-> derived.percentage,
                     average |-> derived.average,
                     baseVolume |-> p[1],
                     quoteVolume |-> p[2],
                     info |-> ticker]))

\* the tickers of the exchange: every price and volume may be missing
Tickers ==
    [timestamp : {Str("1970-01-01T00:00:01.000Z")},
     high : {Str("110")}, low : {Str("100")},
     bid : {undefined, Str("100")}, ask : {Str("110")},
     open : {undefined, Str("0"), Str("100"), Str("-100")},
     last : {undefined, Str("0"), Str("110")},
     volume : {undefined, Str("0"), Str("2")},
     volumeQuote : {undefined, Str("0"), Str("100")}]
Bool(b) == [t |-> "boolean", v |-> b]

\* a && b of JavaScript
And(a, b) == IF Truthy(a) THEN b ELSE a

\* safeValue (object, key) applied to the value object[key]
safeValue(x, default) == IF x = undefined THEN default ELSE x

\* describe (): commonCurrencies
commonCurrencies ==
    [c \in {"BET", "CAT", "CPT", "DRK", "EMGO", "GET", "HSR", "LNC", "PLA", "UNC",
            "USD", "XBT"} |->
        CASE c = "BET" -> "DAO.Casino"
          [] c = "CAT" -> "BitClave"
          [] c = "CPT" -> "Cryptaur"
          [] c = "DRK" -> "DASH"
          [] c = "EMGO" -> "MGO"
          [] c = "GET" -> "Themis"
          [] c = "HSR" -> "HC"
          [] c = "LNC" -> "LinkerCoin"
          [] c = "PLA" -> "PlayChip"
          [] c = "UNC" -> "Unigame"
          [] c = "USD" -> "USDT"
          [] c = "XBT" -> "BTC"]

\* this.safeCurrencyCode (currencyId) for an id in upper case
safeCurrencyCode(currencyId) ==
    IF currencyId = undefined THEN undefined
    ELSE IF currencyId.v \in DOMAIN commonCurrencies
    THEN Str(commonCurrencies[currencyId.v])
    ELSE currencyId

\* line 271
precision == 8

\* Math.pow (10, exponent)
Pow10(exponent) ==
    IF exponent >= 0 THEN Num(10 ^ exponent, 1) ELSE Num(1, 10 ^ (-exponent))

\* faulty variant: the disabled mark is not looked at
currencyActive_ignoreDisabled(payin, payout, transfer, disabled) ==
    And(And(payin, payout), transfer)

\* lines 276-281; 'disabled' in currency holds when the entry has the member
currencyActive(payin, payout, transfer, disabled) ==
    IF disabled # undefined /\ Truthy(disabled) THEN Bool(FALSE)
    ELSE And(And(payin, payout), transfer)

\* lines 268-311: the unified currency of an entry of the response
parseCurrency(currency) ==
    [id |-> safeString(currency.id, undefined),
     code |-> safeCurrencyCode(safeString(currency.id, undefined)),
     type |-> IF currency.crypto # undefined /\ Truthy(currency.crypto)
              THEN Str("crypto") ELSE Str("fiat"),
     payin |-> safeValue(currency.payinEnabled, undefined),
     payout |-> safeValue(currency.payoutEnabled, undefined),
     transfer |-> safeValue(currency.transferEnabled, undefined),
     info |-> currency,
     name |-> safeString(currency.fullName, undefined),
     active |-> currencyActive(safeValue(currency.payinEnabled, undefined),
                               safeValue(currency.payoutEnabled, undefined),
                               safeValue(currency.transferEnabled, undefined),
                               currency.disabled),
     fee |-> safeFloat(currency.payoutFee, undefined),
     precision |-> Num(precision, 1),
     limits |-> [amount |-> [min |-> Pow10(-precision), max |-> Pow10(precision)],
                 price |-> [min |-> Pow10(-precision), max |-> Pow10(precision)],
                 cost |-> [min |-> undefined, max |-> undefined],
                 withdraw |-> [min |-> undefined, max |-> Pow10(precision)]]]

\* fetchCurrencies: result[code] = ... for each entry in turn, a later entry
\* of the same code replacing an earlier one
fetchCurrencies(response) ==
    [t |-> "object",
     v |-> [code \in {ToKey(parseCurrency(response[i]).code) : i \in DOMAIN response} |->
              parseCurrency(response[CHOOSE i \in DOMAIN response :
                  /\ ToKey(parseCurrency(response[i]).code) = code
                  /\ \A j \in DOMAIN response :
                        ToKey(parseCurrency(response[j]).code) = code => j <= i])]]

\* describe (): fees.trading
fees_trading ==
    [tierBased |-> Bool(FALSE), percentage |-> Bool(TRUE),
     maker |-> Num(1, 1000), taker |-> Num(2, 1000)]

\* lines 193-239: the unified market of an entry of the response
parseMarket(market) ==
    Bind([id |-> safeString(market.id, undefined),
          baseId |-> safeString(market.baseCurrency, undefined),
          quoteId |-> safeString(market.quoteCurrency, undefined),
          lot |-> safeFloat(market.quantityIncrement, undefined),
          step |-> safeFloat(market.tickSize, undefined)],
         LAMBDA l :
            [tierBased |-> fees_trading.tierBased,
             percentage |-> fees_trading.percentage,
             info |-> market,
             id |-> l.id,
             symbol |-> Str(ToText(safeCurrencyCode(l.baseId)) \o "/"
                            \o ToText(safeCurrencyCode(l.quoteId))),
             base |-> safeCurrencyCode(l.baseId),
             quote |-> safeCurrencyCode(l.quoteId),
             baseId |-> l.baseId,
             quoteId |-> l.quoteId,
             active |-> Bool(TRUE),
             taker |-> safeFloat(market.takeLiquidityRate, undefined),
             maker |-> safeFloat(market.provideLiquidityRate, undefined),
             precision |-> [price |-> l.step, amount |-> l.lot],
             feeCurrency |-> safeCurrencyCode(safeString(market.feeCurrency, undefined)),
             limits |-> [amount |-> [min |-> l.lot, max |-> undefined],
                         price |-> [min |-> l.step, max |-> undefined],
                         cost |-> [min |-> Times(l.lot, l.step), max |-> undefined]]])

\* fetchMarkets: the entries of the response parsed in turn
fetchMarkets(response) == Arr([i \in DOMAIN response |-> parseMarket(response[i])])
\* faulty variant: payout is left as it is
parseTransactionType_payout(type) ==
    IF type = Str("payin") THEN Str("deposit")
    ELSE IF type = Str("withdraw") THEN Str("withdrawal")
    ELSE type

\* lines 672-679
parseTransactionStatus(status) ==
    IF status = Str("pending") THEN Str("pending")
    ELSE IF status = Str("failed") THEN Str("failed")
    ELSE IF status = Str("success") THEN Str("ok")
    ELSE status

\* lines 681-688
parseTransactionType(type) ==
    IF type = Str("payin") THEN Str("deposit")
    ELSE IF type = Str("payout") THEN Str("withdrawal")
    ELSE IF type = Str("withdraw") THEN Str("withdrawal")
    ELSE type

\* lines 634-635: the fee of a transaction
transactionFee(feeCost, code) ==
    IF feeCost # undefined THEN [cost |-> feeCost, currency |-> code] ELSE undefined

\* parseTransaction (transaction), no currency given
parseTransaction(transaction) ==
    Bind([timestamp |-> parse8601(safeString(transaction.createdAt, undefined)),
          code |-> safeCurrencyCode(safeString(transaction.currency, undefined))],
         LAMBDA l :
            [info |-> transaction,
             id |-> safeString(transaction.id, undefined),
             txid |-> safeString(transaction.hash, undefined),
             timestamp |-> l.timestamp,
             datetime |-> iso8601(l.timestamp),
             address |-> safeString(transaction.address, undefined),
             tag |-> undefined,
             type |-> parseTransactionType(safeString(transaction.type, undefined)),
             amount |-> safeFloat(transaction.amount, undefined),
             currency |-> l.code,
             status |-> parseTransactionStatus(safeString(transaction.status, undefined)),
             updated |-> parse8601(safeString(transaction.updatedAt, undefined)),
             fee |-> transactionFee(safeFloat(transaction.fee, undefined), l.code)])

----------------------------------------------------------------------------
(* Inputs of the parsers *)

Flags == {undefined, Bool(TRUE), Bool(FALSE)}

\* the entries of the currency listing
Currencies ==
    [id : {Str("BTC"), Str("USD")}, fullName : {Str("Coin")}, crypto : {Bool(TRUE)},
     payinEnabled : Flags, payoutEnabled : Flags, transferEnabled : Flags,
     disabled : Flags, payoutFee : {undefined, Str("0.1")}]

\* the currency listings: one entry, or a fully enabled entry followed by one
\* of the same code
CurrencyResponses ==
    {<< >>} \cup {<<c>> : c \in Currencies}
    \cup {<<[id |-> Str("BTC"), fullName |-> Str("Coin"), crypto |-> Bool(TRUE),
             payinEnabled |-> Bool(TRUE), payoutEnabled |-> Bool(TRUE),
             transferEnabled |-> Bool(TRUE), disabled |-> undefined,
             payoutFee |-> undefined], c>> :
             c \in {d \in Currencies : d.id = Str("BTC") /\ d.payoutFee = undefined}}

\* the entries of the symbol listing: increment and tick size may be missing
Symbols ==
    [id : {Str("ETHBTC")}, baseCurrency : {Str("ETH")}, quoteCurrency : {Str("BTC"), Str("USD")},
     quantityIncrement : {undefined, Str("0"), Str("0.1")},
     tickSize : {undefined, Str("0.1"), Str("2")},
     takeLiquidityRate : {undefined, Str("0.2")}, provideLiquidityRate : {Str("0.1")},
     feeCurrency : {Str("BTC")}]

SymbolResponses == {<< >>} \cup {<<s>> : s \in Symbols}

TransactionStatuses ==
    {undefined} \cup {Str(s) : s \in {"pending", "failed", "success", "created"}}

TransactionTypes ==
    {undefined} \cup {Str(s) : s \in {"payin", "payout", "withdraw", "deposit",
                                      "exchangeToBank", "bankToExchange"}}

Transactions ==
    [id : {Str("t1")}, type : TransactionTypes, status : TransactionStatuses,
     currency : {Str("ETH")}, amount : {undefined, Str("2")},
     fee : {undefined, Str("0.1")},
     createdAt : {Str("1970-01-01T00:00:01.000Z")}, updatedAt : {undefined},
     hash : {undefined}, address : {undefined, Str("addr")}]

\* the trades handed to parseTrade: symbol, price, quantity and fee may be
\* missing
Trades ==
    [id : {Num(1, 1)}, clientOrderId : {undefined, Str("a")},
     symbol : {undefined, Str("ETHBTC"), Str("XYZ")}, side : {Str("buy")},
     quantity : {undefined, Str("0"), Str("2")}, price : {undefined, Str("100")},
     fee : {undefined, Str("0"), Str("0.1")}]

\* the market the caller passes to parseTrade: none, or one of another symbol
\* than the trade's
CallerMarkets ==
    {undefined,
     [id |-> Str("LTCBTC"), symbol |-> Str("LTC/BTC"), base |-> Str("LTC"),
      quote |-> Str("BTC"), feeCurrency |-> Str("LTC")]}

----------------------------------------------------------------------------
(* The parsers as a state machine: one parser is applied to one input and  *)
(* the caller takes the result.                                            *)

InitParsers ==
    /\ orders = << >>
    /\ op = "init"
    /\ args = << >>
    /\ ret = Return(undefined)

ParseTicker ==
    /\ op = "init"
    /\ \E ticker \in Tickers, market \in CallerMarkets :
          /\ op' = "parseTicker"
          /\ args' = [ticker |-> ticker, market |-> market]
          /\ ret' = Return(parseTicker(ticker, market))
          /\ UNCHANGED orders

FetchCurrencies ==
    /\ op = "init"
    /\ \E response \in CurrencyResponses :
          /\ op' = "fetchCurrencies"
          /\ args' = [response |-> response]
          /\ ret' = Return(fetchCurrencies(response))
          /\ UNCHANGED orders

FetchMarkets ==
    /\ op = "init"
    /\ \E response \in SymbolResponses :
          /\ op' = "fetchMarkets"
          /\ args' = [response |-> response]
          /\ ret' = Return(fetchMarkets(response))
          /\ UNCHANGED orders

ParseTransaction ==
    /\ op = "init"
    /\ \E transaction \in Transactions :
          /\ op' = "parseTransaction"
          /\ args' = [transaction |-> transaction]
          /\ ret' = Return(parseTransaction(transaction))
          /\ UNCHANGED orders

ParseTrade ==
    /\ op = "init"
    /\ \E trade \in Trades, market \in CallerMarkets :
          /\ op' = "parseTrade"
          /\ args' = [trade |-> trade, market |-> market]
          /\ ret' = Return(parseTrade(trade, market))
          /\ UNCHANGED orders

\* the caller takes the result
ResumeParsers ==
    /\ op \in {"parseTicker", "fetchCurrencies", "fetchMarkets", "parseTransaction",
               "parseTrade"}
    /\ op' = "init"
    /\ args' = << >>
    /\ ret' = Return(undefined)
    /\ UNCHANGED orders

NextParsers ==
    \/ ParseTicker
    \/ FetchCurrencies
    \/ FetchMarkets
    \/ ParseTransaction
    \/ ParseTrade
    \/ ResumeParsers

SpecParsers == InitParsers /\ [][NextParsers]_vars

----------------------------------------------------------------------------
(* Claims about the parsers, checked under SpecParsers *)

ParsedTicker == op = "parseTicker"

\* C15: change = last - open and average = (last + open) / 2 are set exactly
\* when last and open are both defined; percentage = change / open * 100 is
\* set only when open is non-zero as well (and is set for an open above
\* zero); vwap = quoteVolume / baseVolume is set only when both volumes are
\* defined and baseVolume is non-zero (and is set for a baseVolume above
\* zero); otherwise the derived field is unset
C15_TickerDerived ==
    ParsedTicker =>
        LET t == ret.value
            both == IsNumber(t.last) /\ IsNumber(t.open)
            volumes == IsNumber(t.quoteVolume) /\ IsNumber(t.baseVolume)
        IN  /\ IF both
               THEN /\ t.change = Minus(t.last, t.open)
                    /\ t.average = Divide(Plus(t.last, t.open), Num(2, 1))
               ELSE t.change = undefined /\ t.average = undefined
            /\ t.percentage # undefined =>
                  /\ both /\ t.open.n # 0
                  /\ t.percentage = Times(Divide(t.change, t.open), Num(100, 1))
            /\ (both /\ t.open.n > 0) => t.percentage # undefined
            /\ t.vwap # undefined =>
                  /\ volumes /\ t.baseVolume.n # 0
                  /\ t.vwap = Divide(t.quoteVolume, t.baseVolume)
            /\ (volumes /\ t.baseVolume.n > 0) => t.vwap # undefined

\* last = 110 and open = 100 give change 10, average 105 and percentage 10
C15_Witness ==
    /\ ParsedTicker
    /\ args.ticker.last = Str("110")
    /\ args.ticker.open = Str("100")
    /\ ret.value.change = Num(10, 1)
    /\ ret.value.average = Num(105, 1)
    /\ ret.value.percentage = Num(10, 1)

FetchedCurrencies == op = "fetchCurrencies"

Enabled(flag) == flag = Bool(TRUE)

\* C16: the active flag of a currency is true exactly when payinEnabled,
\* payoutEnabled and transferEnabled are all true and the entry is not marked
\* disabled
C16_CurrencyActive ==
    FetchedCurrencies =>
        \A code \in DOMAIN ret.value.v :
            LET currency == ret.value.v[code].info
            IN  ret.value.v[code].active = Bool(TRUE) <=>
                   /\ Enabled(currency.payinEnabled)
                   /\ Enabled(currency.payoutEnabled)
                   /\ Enabled(currency.transferEnabled)
                   /\ ~Enabled(currency.disabled)

\* all three enabled, and the entry marked disabled: not active
C16_Witness ==
    /\ FetchedCurrencies
    /\ Len(args.response) = 1
    /\ Enabled(args.response[1].payinEnabled)
    /\ Enabled(args.response[1].payoutEnabled)
    /\ Enabled(args.response[1].transferEnabled)
    /\ Enabled(args.response[1].disabled)
    /\ ret.value.v["BTC"].active = Bool(FALSE)

ParsedTrade == op = "parseTrade"

\* C17: a symbol id of the market-id table gives that entry's symbol,
\* whatever market the caller passed; any other symbol id is the unified
\* symbol itself; the trade has a fee record exactly when the raw trade has
\* a fee value
C17_TradeSymbolAndFee ==
    ParsedTrade =>
        /\ (args.trade.symbol # undefined /\ args.trade.symbol.v \in DOMAIN markets_by_id) =>
              ret.value.symbol = markets_by_id[args.trade.symbol.v].symbol
        /\ (args.trade.symbol # undefined /\ args.trade.symbol.v \notin DOMAIN markets_by_id) =>
              ret.value.symbol = args.trade.symbol
        /\ ret.value.fee # undefined <=> args.trade.fee # undefined
        /\ ret.value.fee # undefined => ret.value.fee.cost = parseFloat(args.trade.fee)

\* a trade of ETHBTC parsed with the market LTC/BTC passed by the caller
C17_Witness ==
    /\ ParsedTrade
    /\ args.trade.symbol = Str("ETHBTC")
    /\ args.market # undefined
    /\ args.market.symbol = Str("LTC/BTC")
    /\ args.trade.fee = Str("0")
    /\ ret.value.symbol = Str("ETH/BTC")
    /\ ret.value.fee = [cost |-> Num(0, 1), currency |-> Str("BTC")]

ParsedTransaction == op = "parseTransaction"

\* the statuses and types the specification lists
ListedTransactionStatus(status) ==
    CASE status = Str("pending") -> Str("pending")
      [] status = Str("failed") -> Str("failed")
      [] status = Str("success") -> Str("ok")
      [] OTHER -> status

ListedTransactionType(type) ==
    CASE type = Str("payin") -> Str("deposit")
      [] type \in {Str("payout"), Str("withdraw")} -> Str("withdrawal")
      [] OTHER -> type

\* C18: the status of a transaction maps pending to pending, failed to
\* failed, success to ok and any other status to itself; its type maps payin
\* to deposit, payout and withdraw to withdrawal and any other type to itself
C18_TransactionStatusAndType ==
    ParsedTransaction =>
        /\ ret.value.status = ListedTransactionStatus(args.transaction.status)
        /\ ret.value.type = ListedTransactionType(args.transaction.type)

C18_Witness ==
    /\ ParsedTransaction
    /\ args.transaction.status = Str("success")
    /\ args.transaction.type = Str("payout")
    /\ ret.value.status = Str("ok")
    /\ ret.value.type = Str("withdrawal")

FetchedMarkets == op = "fetchMarkets"

\* C19: a field derived from a missing numeric input is unset: the cost of a
\* trade without price or quantity, the least cost of a market without
\* quantityIncrement or tickSize, and the derived fields of a ticker
C19_UnknownIsUnset ==
    /\ ParsedTrade =>
          ((args.trade.price = undefined \/ args.trade.quantity = undefined) =>
              ret.value.cost = undefined)
    /\ FetchedMarkets =>
          \A i \in DOMAIN ret.value.v :
              (args.response[i].quantityIncrement = undefined
               \/ args.response[i].tickSize = undefined) =>
                  ret.value.v[i].limits.cost.min = undefined
    /\ ParsedTicker =>
          /\ (args.ticker.last = undefined \/ args.ticker.open = undefined) =>
                /\ ret.value.change = undefined
                /\ ret.value.average = undefined
                /\ ret.value.percentage = undefined
          /\ (args.ticker.volume = undefined \/ args.ticker.volumeQuote = undefined) =>
                ret.value.vwap = undefined

----------------------------------------------------------------------------
(* The unified operations, step by step: the markets are loaded, the       *)
(* arguments are looked up, the endpoint is called and its response is      *)
(* parsed.                                                                 *)

Endpoint(api, method, path) == [api |-> api, method |-> method, path |-> path]

\* await this.loadMarkets ()
LoadMarketsStep == [kind |-> "loadMarkets", raises |-> "none", endpoints |-> {}]

\* this.market (symbol), this.currency (code), this.checkAddress (address):
\* a lookup that raises when the argument is unknown
CheckStep(raises) == [kind |-> "check", raises |-> raises, endpoints |-> {}]

\* await this.<endpoint> (request): one of the endpoints, by the arguments
CallStep(endpoints) == [kind |-> "call", raises |-> "none", endpoints |-> endpoints]

\* the rest of the operation: the response is parsed and the result
\* returned, or the exception named is raised
ParseStep(raises) == [kind |-> "parse", raises |-> raises, endpoints |-> {}]

Operations ==
    {"fetchMarkets", "fetchCurrencies", "fetchTradingFee", "fetchBalance",
     "fetchOHLCV", "fetchOrderBook", "fetchTickers", "fetchTicker",
     "fetchTransactions", "fetchTrades", "createOrder", "editOrder",
     "cancelOrder", "fetchOrder", "fetchOpenOrder", "fetchOpenOrders",
     "fetchClosedOrders", "fetchMyTrades", "fetchOrderTrades", "createDepositAddress",
     "fetchDepositAddress", "withdraw"}

\* faulty variant: fetchOrder calls a second endpoint after the first response
Program_retry(operation) ==
    CASE operation = "fetchMarkets" ->  \* lines 176-241
            <<CallStep({Endpoint("public", "GET", <<Lit("symbol")>>)}),
              ParseStep("none")>>
      [] operation = "fetchCurrencies" ->  \* lines 243-314
            <<CallStep({Endpoint("public", "GET", <<Lit("currency")>>)}),
              ParseStep("none")>>
      [] operation = "fetchTradingFee" ->  \* lines 320-338
            <<LoadMarketsStep,
              CheckStep("BadSymbol"),
              CallStep({Endpoint("private", "GET", <<Lit("trading"), Lit("fee"), Par("symbol")>>)}),
              ParseStep("none")>>
      [] operation = "fetchBalance" ->  \* lines 340-357
            <<LoadMarketsStep,
              CallStep({Endpoint("private", "GET", <<Lit("trading"), Lit("balance")>>), Endpoint("private", "GET", <<Lit("account"), Lit("balance")>>)}),
              ParseStep("none")>>
      [] operation = "fetchOHLCV" ->  \* lines 381-403
            <<LoadMarketsStep,
              CheckStep("BadSymbol"),
              CallStep({Endpoint("public", "GET", <<Lit("candles"), Par("symbol")>>)}),
              ParseStep("none")>>
      [] operation = "fetchOrderBook" ->  \* lines 405-415
            <<LoadMarketsStep,
              CheckStep("BadSymbol"),
              CallStep({Endpoint("public", "GET", <<Lit("orderbook"), Par("symbol")>>)}),
              ParseStep("none")>>
      [] operation = "fetchTickers" ->  \* lines 469-487
            <<LoadMarketsStep,
              CallStep({Endpoint("public", "GET", <<Lit("ticker")>>)}),
              ParseStep("none")>>
      [] operation = "fetchTicker" ->  \* lines 489-500
            <<LoadMarketsStep,
              CheckStep("BadSymbol"),
              CallStep({Endpoint("public", "GET", <<Lit("ticker"), Par("symbol")>>)}),
              ParseStep("ExchangeError")>>
      [] operation = "fetchTransactions" ->  \* lines 564-577
            <<LoadMarketsStep,
              CheckStep("ExchangeError"),
              CallStep({Endpoint("private", "GET", <<Lit("account"), Lit("transactions")>>)}),
              ParseStep("none")>>
      [] operation = "fetchTrades" ->  \* lines 690-705
            <<LoadMarketsStep,
              CheckStep("BadSymbol"),
              CallStep({Endpoint("public", "GET", <<Lit("trades"), Par("symbol")>>)}),
              ParseStep("none")>>
      [] operation = "createOrder" ->  \* lines 707-739
            <<LoadMarketsStep,
              CheckStep("BadSymbol"),
              CallStep({Endpoint("private", "POST", <<Lit("order")>>)}),
              ParseStep("InvalidOrder")>>
      [] operation = "editOrder" ->  \* lines 741-765
            <<LoadMarketsStep,
              CallStep({Endpoint("private", "PATCH", <<Lit("order"), Par("clientOrderId")>>)}),
              ParseStep("none")>>
      [] operation = "cancelOrder" ->  \* lines 767-777
            <<LoadMarketsStep,
              CallStep({Endpoint("private", "DELETE", <<Lit("order"), Par("clientOrderId")>>)}),
              ParseStep("none")>>
      [] operation = "fetchOrder" ->  \* lines 912-926
            <<LoadMarketsStep,
              CallStep({Endpoint("private", "GET", <<Lit("history"), Lit("order")>>)}),
              ParseStep("none"),
              CallStep({Endpoint("private", "GET", <<Lit("order"), Par("clientOrderId")>>)}),
              ParseStep("OrderNotFound")>>
      [] operation = "fetchOpenOrder" ->  \* lines 928-938
            <<LoadMarketsStep,
              CallStep({Endpoint("private", "GET", <<Lit("order"), Par("clientOrderId")>>)}),
              ParseStep("none")>>
      [] operation = "fetchOpenOrders" ->  \* lines 940-950
            <<LoadMarketsStep,
              CheckStep("BadSymbol"),
              CallStep({Endpoint("private", "GET", <<Lit("order")>>)}),
              ParseStep("none")>>
      [] operation = "fetchClosedOrders" ->  \* lines 952-977
            <<LoadMarketsStep,
              CheckStep("BadSymbol"),
              CallStep({Endpoint("private", "GET", <<Lit("history"), Lit("order")>>)}),
              ParseStep("none")>>
      [] operation = "fetchMyTrades" ->  \* lines 979-1029
            <<LoadMarketsStep,
              CheckStep("BadSymbol"),
              CallStep({Endpoint("private", "GET", <<Lit("history"), Lit("trades")>>)}),
              ParseStep("none")>>
      [] operation = "fetchOrderTrades" ->  \* lines 1031-1049
            <<LoadMarketsStep,
              CheckStep("BadSymbol"),
              CallStep({Endpoint("private", "GET", <<Lit("history"), Lit("order"), Par("orderId"), Lit("trades")>>)}),
              ParseStep("OrderNotFound")>>
      [] operation = "createDepositAddress" ->  \* lines 1051-1067
            <<LoadMarketsStep,
              CheckStep("ExchangeError"),
              CallStep({Endpoint("private", "POST", <<Lit("account"), Lit("crypto"), Lit("address"), Par("currency")>>)}),
              ParseStep("InvalidAddress")>>
      [] operation = "fetchDepositAddress" ->  \* lines 1069-1085
            <<LoadMarketsStep,
              CheckStep("ExchangeError"),
              CallStep({Endpoint("private", "GET", <<Lit("account"), Lit("crypto"), Lit("address"), Par("currency")>>)}),
              ParseStep("InvalidAddress")>>
      [] operation = "withdraw" ->  \* lines 1087-1104
            <<LoadMarketsStep,
              CheckStep("InvalidAddress"),
              CheckStep("ExchangeError"),
              CallStep({Endpoint("private", "POST", <<Lit("account"), Lit("crypto"), Lit("withdraw")>>)}),
              ParseStep("none")>>

\* the steps of each operation, in the order of its source
Program(operation) ==
    CASE operation = "fetchMarkets" ->  \* lines 176-241
            <<CallStep({Endpoint("public", "GET", <<Lit("symbol")>>)}),
              ParseStep("none")>>
      [] operation = "fetchCurrencies" ->  \* lines 243-314
            <<CallStep({Endpoint("public", "GET", <<Lit("currency")>>)}),
              ParseStep("none")>>
      [] operation = "fetchTradingFee" ->  \* lines 320-338
            <<LoadMarketsStep,
              CheckStep("BadSymbol"),
              CallStep({Endpoint("private", "GET", <<Lit("trading"), Lit("fee"), Par("symbol")>>)}),
              ParseStep("none")>>
      [] operation = "fetchBalance" ->  \* lines 340-357
            <<LoadMarketsStep,
              CallStep({Endpoint("private", "GET", <<Lit("trading"), Lit("balance")>>), Endpoint("private", "GET", <<Lit("account"), Lit("balance")>>)}),
              ParseStep("none")>>
      [] operation = "fetchOHLCV" ->  \* lines 381-403
            <<LoadMarketsStep,
              CheckStep("BadSymbol"),
              CallStep({Endpoint("public", "GET", <<Lit("candles"), Par("symbol")>>)}),
              ParseStep("none")>>
      [] operation = "fetchOrderBook" ->  \* lines 405-415
            <<LoadMarketsStep,
              CheckStep("BadSymbol"),
              CallStep({Endpoint("public", "GET", <<Lit("orderbook"), Par("symbol")>>)}),
              ParseStep("none")>>
      [] operation = "fetchTickers" ->  \* lines 469-487
            <<LoadMarketsStep,
              CallStep({Endpoint("public", "GET", <<Lit("ticker")>>)}),
              ParseStep("none")>>
      [] operation = "fetchTicker" ->  \* lines 489-500
            <<LoadMarketsStep,
              CheckStep("BadSymbol"),
              CallStep({Endpoint("public", "GET", <<Lit("ticker"), Par("symbol")>>)}),
              ParseStep("ExchangeError")>>
      [] operation = "fetchTransactions" ->  \* lines 564-577
            <<LoadMarketsStep,
              CheckStep("ExchangeError"),
              CallStep({Endpoint("private", "GET", <<Lit("account"), Lit("transactions")>>)}),
              ParseStep("none")>>
      [] operation = "fetchTrades" ->  \* lines 690-705
            <<LoadMarketsStep,
              CheckStep("BadSymbol"),
              CallStep({Endpoint("public", "GET", <<Lit("trades"), Par("symbol")>>)}),
              ParseStep("none")>>
      [] operation = "createOrder" ->  \* lines 707-739
            <<LoadMarketsStep,
              CheckStep("BadSymbol"),
              CallStep({Endpoint("private", "POST", <<Lit("order")>>)}),
              ParseStep("InvalidOrder")>>
      [] operation = "editOrder" ->  \* lines 741-765
            <<LoadMarketsStep,
              CallStep({Endpoint("private", "PATCH", <<Lit("order"), Par("clientOrderId")>>)}),
              ParseStep("none")>>
      [] operation = "cancelOrder" ->  \* lines 767-777
            <<LoadMarketsStep,
              CallStep({Endpoint("private", "DELETE", <<Lit("order"), Par("clientOrderId")>>)}),
              ParseStep("none")>>
      [] operation = "fetchOrder" ->  \* lines 912-926
            <<LoadMarketsStep,
              CallStep({Endpoint("private", "GET", <<Lit("history"), Lit("order")>>)}),
              ParseStep("OrderNotFound")>>
      [] operation = "fetchOpenOrder" ->  \* lines 928-938
            <<LoadMarketsStep,
              CallStep({Endpoint("private", "GET", <<Lit("order"), Par("clientOrderId")>>)}),
              ParseStep("none")>>
      [] operation = "fetchOpenOrders" ->  \* lines 940-950
            <<LoadMarketsStep,
              CheckStep("BadSymbol"),
              CallStep({Endpoint("private", "GET", <<Lit("order")>>)}),
              ParseStep("none")>>
      [] operation = "fetchClosedOrders" ->  \* lines 952-977
            <<LoadMarketsStep,
              CheckStep("BadSymbol"),
              CallStep({Endpoint("private", "GET", <<Lit("history"), Lit("order")>>)}),
              ParseStep("none")>>
      [] operation = "fetchMyTrades" ->  \* lines 979-1029
            <<LoadMarketsStep,
              CheckStep("BadSymbol"),
              CallStep({Endpoint("private", "GET", <<Lit("history"), Lit("trades")>>)}),
              ParseStep("none")>>
      [] operation = "fetchOrderTrades" ->  \* lines 1031-1049
            <<LoadMarketsStep,
              CheckStep("BadSymbol"),
              CallStep({Endpoint("private", "GET", <<Lit("history"), Lit("order"), Par("orderId"), Lit("trades")>>)}),
              ParseStep("OrderNotFound")>>
      [] operation = "createDepositAddress" ->  \* lines 1051-1067
            <<LoadMarketsStep,
              CheckStep("ExchangeError"),
              CallStep({Endpoint("private", "POST", <<Lit("account"), Lit("crypto"), Lit("address"), Par("currency")>>)}),
              ParseStep("InvalidAddress")>>
      [] operation = "fetchDepositAddress" ->  \* lines 1069-1085
            <<LoadMarketsStep,
              CheckStep("ExchangeError"),
              CallStep({Endpoint("private", "GET", <<Lit("account"), Lit("crypto"), Lit("address"), Par("currency")>>)}),
              ParseStep("InvalidAddress")>>
      [] operation = "withdraw" ->  \* lines 1087-1104
            <<LoadMarketsStep,
              CheckStep("InvalidAddress"),
              CheckStep("ExchangeError"),
              CallStep({Endpoint("private", "POST", <<Lit("account"), Lit("crypto"), Lit("withdraw")>>)}),
              ParseStep("none")>>
\* the responses of an endpoint: for the endpoints that place, replace and
\* cancel an order a resting limit order or a rejected market order; for the
\* others the response is not looked into
Replies(operation) ==
    IF operation \in {"createOrder", "editOrder", "cancelOrder"}
    THEN RawOrders({Str("a")}, {Str("ETHBTC")}, {Str("new")}, {Str("limit")},
                   {Str("100")}, {Str("2")}, {Str("0")}, {undefined})
         \cup RawOrders({Str("b")}, {Str("ETHBTC")}, {Str("rejected")}, {Str("market")},
                        {undefined}, {Str("2")}, {Str("0")}, {undefined})
    ELSE {Str("response")}

\* the outcome of the step that parses the response and ends the operation,
\* and the cache it leaves
parseOutcomes(operation, cache, reply, raises) ==
    CASE operation = "createOrder" -> {createOrder(cache, reply)}
      [] operation = "editOrder" -> {editOrder(cache, reply)}
      [] operation = "cancelOrder" -> {cancelOrder(cache, reply)}
      [] OTHER ->
            {Outcome(Return(Str("parsed")), cache)}
            \cup (IF raises = "none" THEN {}
                  ELSE {Outcome(Throw(raises, <<id>>), cache)})

\* the frame of a running operation: the place in its program, the endpoints
\* called, the responses received and, for each parse, the response parsed
Frame(pc, calls, responses, parsed, pending, done) ==
    [pc |-> pc, calls |-> calls, responses |-> responses, parsed |-> parsed,
     pending |-> pending, done |-> done]

InitCalls ==
    /\ orders = EmptyCache
    /\ op = "idle"
    /\ args = << >>
    /\ ret = Return(undefined)

Running == op \in Operations /\ ~args.done /\ args.pc <= Len(Program(op))

Begin ==
    /\ op = "idle"
    /\ \E operation \in Operations :
          /\ op' = operation
          /\ args' = Frame(1, << >>, << >>, << >>, FALSE, FALSE)
          /\ UNCHANGED <<orders, ret>>

RunLoadMarkets ==
    /\ Running
    /\ Program(op)[args.pc].kind = "loadMarkets"
    /\ args' = [args EXCEPT !.pc = @ + 1]
    /\ UNCHANGED <<orders, op, ret>>

\* the lookup finds its argument, or raises
RunCheck ==
    /\ Running
    /\ Program(op)[args.pc].kind = "check"
    /\ \/ /\ args' = [args EXCEPT !.pc = @ + 1]
          /\ UNCHANGED ret
       \/ /\ args' = [args EXCEPT !.done = TRUE]
          /\ ret' = Throw(Program(op)[args.pc].raises, <<id>>)
    /\ UNCHANGED <<orders, op>>

\* the request is handed to the transport
IssueCall ==
    /\ Running
    /\ Program(op)[args.pc].kind = "call"
    /\ ~args.pending
    /\ \E endpoint \in Program(op)[args.pc].endpoints :
          args' = [args EXCEPT !.calls = Append(@, endpoint), !.pending = TRUE]
    /\ UNCHANGED <<orders, op, ret>>

\* the transport returns the decoded response, or raises
Receive ==
    /\ Running
    /\ args.pending
    /\ \/ \E reply \in Replies(op) :
             /\ args' = [args EXCEPT !.responses = Append(@, reply),
                                     !.pending = FALSE, !.pc = @ + 1]
             /\ UNCHANGED ret
       \/ /\ args' = [args EXCEPT !.pending = FALSE, !.done = TRUE]
          /\ ret' = Throw("ExchangeNotAvailable", <<id>>)
    /\ UNCHANGED <<orders, op>>

\* the last response is parsed
RunParse ==
    /\ Running
    /\ Program(op)[args.pc].kind = "parse"
    /\ \E outcome \in parseOutcomes(op, orders, args.responses[Len(args.responses)],
                                    Program(op)[args.pc].raises) :
          /\ args' = [args EXCEPT !.parsed = Append(@, Len(args.responses)),
                                  !.pc = IF outcome.ret.threw THEN @ ELSE @ + 1,
                                  !.done = outcome.ret.threw]
          /\ ret' = outcome.ret
          /\ orders' = outcome.orders
    /\ UNCHANGED op

\* the operation returns or has raised: the caller takes the outcome
Finish ==
    /\ op \in Operations
    /\ ~Running
    /\ op' = "idle"
    /\ args' = << >>
    /\ ret' = Return(undefined)
    /\ UNCHANGED orders

NextCalls ==
    \/ Begin
    \/ RunLoadMarkets
    \/ RunCheck
    \/ IssueCall
    \/ Receive
    \/ RunParse
    \/ Finish

SpecCalls == InitCalls /\ [][NextCalls]_vars

----------------------------------------------------------------------------
(* Claims about the operations, checked under SpecCalls *)

\* the operation has returned its result
OperationReturned ==
    op \in Operations /\ ~args.done /\ args.pc > Len(Program(op)) /\ ~ret.threw

\* C20: an operation issues one endpoint call of its own and parses that one
\* response: never a second call, never a call after a response was parsed,
\* and an operation that returns a result has issued exactly one call and
\* parsed its response once
C20_OneCallPerOperation ==
    op \in Operations =>
        /\ Len(args.calls) <= 1
        /\ Len(args.responses) <= Len(args.calls)
        /\ args.parsed \in {<< >>, <<1>>}
        /\ Len(args.parsed) <= Len(args.responses)
        /\ args.pending => Len(args.parsed) = 0
        /\ OperationReturned => Len(args.calls) = 1 /\ args.parsed = <<1>>

C20_Witness ==
    /\ op = "fetchOrder"
    /\ OperationReturned
    /\ args.calls = <<Endpoint("private", "GET", <<Lit("history"), Lit("order")>>)>>
    /\ args.parsed = <<1>>

====
